---- MODULE Spec2Model ----
(***************************************************************************)
(* Research orchestration core of bta-onboarding (src/src/aiService.js):   *)
(* the provider router callPrimaryThenFallback, the orchestrators          *)
(* researchDomain and researchCompetitor, and the pure helpers they call.  *)
(*                                                                         *)
(* JavaScript values are tagged records: [t |-> "undefined"],              *)
(* [t |-> "null"], [t |-> "string", v |-> s], [t |-> "array", v |-> seq],  *)
(* [t |-> "object", v |-> f] with f a function from key names to values.   *)
(* A JavaScript string is a sequence of tokens; a token is a piece of text *)
(* ("www", ".", "com", "https://", " ", "LOW", ...) that the string        *)
(* operations of the code treat as a unit.  Scheme tokens occur only at    *)
(* the head of a string.                                                   *)
(***************************************************************************)
EXTENDS Integers, Sequences, FiniteSets, TLC

(***************************************************************************)
(* JavaScript values                                                       *)
(***************************************************************************)
Undef == [t |-> "undefined"]
Null == [t |-> "null"]
Str(s) == [t |-> "string", v |-> s]
Arr(s) == [t |-> "array", v |-> s]
Obj(f) == [t |-> "object", v |-> f]
EmptyObj == Obj(<<>>)

\* raw.key : a missing key reads as undefined; reading a key of a
\* non-object (a string, an array) reads as undefined as well.
Get(o, k) == IF o.t = "object" /\ k \in DOMAIN o.v THEN o.v[k] ELSE Undef

\* JavaScript truthiness (Boolean(x), !x, x || y)
Truthy(x) ==
    ~(\/ x.t \in {"undefined", "null"}
      \/ (x.t = "string" /\ x.v = <<>>)
      \/ (x.t = "number" /\ x.v = 0)
      \/ (x.t = "boolean" /\ ~x.v))
Or(x, y) == IF Truthy(x) THEN x ELSE y
IsArray(x) == x.t = "array"
\* typeof x === 'object' : true of null, arrays and objects
TypeofObject(x) == x.t \in {"null", "array", "object"}

(***************************************************************************)
(* Strings as token sequences                                              *)
(***************************************************************************)
LowerTok(c) ==
    CASE c = "WWW" -> "www"
      [] c = "Www" -> "www"
      [] c = "A" -> "a"
      [] c = "B" -> "b"
      [] c = "COM" -> "com"
      [] c = "Example" -> "example"
      [] c = "HTTPS://" -> "https://"
      [] c = "HTTP://" -> "http://"
      [] c = "LOW" -> "low"
      [] c = "Low" -> "low"
      [] c = "Medium" -> "medium"
      [] c = "High" -> "high"
      [] c = "OpenAI responses failed: " -> "openai responses failed: "
      [] OTHER -> c

\* String.prototype.toLowerCase
toLowerCase(s) == [i \in 1..Len(s) |-> LowerTok(s[i])]

RECURSIVE TrimLeft(_)
TrimLeft(s) == IF s # <<>> /\ Head(s) = " " THEN TrimLeft(Tail(s)) ELSE s

RECURSIVE TrimRight(_)
TrimRight(s) ==
    IF s # <<>> /\ s[Len(s)] = " " THEN TrimRight(SubSeq(s, 1, Len(s) - 1)) ELSE s

\* String.prototype.trim
trim(s) == TrimRight(TrimLeft(s))

\* String.prototype.includes('.')
IncludesDot(s) == \E i \in 1..Len(s) : s[i] = "."

\* /^https?:\/\//i.test(s) and the case-sensitive form used after toLowerCase
HasSchemeI(s) == s # <<>> /\ LowerTok(Head(s)) \in {"https://", "http://"}
HasScheme(s) == s # <<>> /\ Head(s) \in {"https://", "http://"}

\* s.replace(/^www\./i, '') and the case-sensitive form
StripWwwI(s) ==
    IF Len(s) >= 2 /\ LowerTok(s[1]) = "www" /\ s[2] = "." THEN SubSeq(s, 3, Len(s)) ELSE s
StripWww(s) ==
    IF Len(s) >= 2 /\ s[1] = "www" /\ s[2] = "." THEN SubSeq(s, 3, Len(s)) ELSE s

\* s.split('/')[0]
RECURSIVE BeforeSlash(_)
BeforeSlash(s) ==
    IF s = <<>> \/ Head(s) = "/" THEN <<>> ELSE <<Head(s)>> \o BeforeSlash(Tail(s))

RECURSIVE SkipSlashes(_)
SkipSlashes(s) == IF s # <<>> /\ Head(s) = "/" THEN SkipSlashes(Tail(s)) ELSE s

\* Array.prototype.join(sep) over strings already converted
RECURSIVE JoinStrs(_, _)
JoinStrs(ss, sep) ==
    IF ss = <<>> THEN <<>>
    ELSE IF Len(ss) = 1 THEN ss[1]
    ELSE ss[1] \o sep \o JoinStrs(Tail(ss), sep)

\* String(x); inside join, null and undefined elements give the empty string
RECURSIVE ToStr(_)
ToStr(x) ==
    CASE x.t = "string" -> x.v
      [] x.t = "undefined" -> <<"undefined">>
      [] x.t = "null" -> <<"null">>
      [] x.t = "number" -> <<ToString(x.v)>>
      [] x.t = "boolean" -> IF x.v THEN <<"true">> ELSE <<"false">>
      [] x.t = "object" -> <<"[object Object]">>
      [] x.t = "array" ->
           JoinStrs([i \in 1..Len(x.v) |->
                        IF x.v[i].t \in {"null", "undefined"} THEN <<>> ELSE ToStr(x.v[i])],
                    <<",">>)

(***************************************************************************)
(* Competitor sanitizer and deduplicator                                   *)
(***************************************************************************)
\* Tokens that are forbidden host code points for new URL(...)
SpaceTok == {" ", " - ", ", ", "[object Object]"}

\* new URL(withProtocol): the authority is what follows the scheme and any
\* further slashes, up to the next "/"; leading and trailing spaces of the
\* whole URL string are stripped first.
UrlHost(withProtocol) == BeforeSlash(SkipSlashes(Tail(TrimRight(withProtocol))))
UrlThrows(withProtocol) ==
    LET host == UrlHost(withProtocol)
    IN  host = <<>> \/ \E i \in 1..Len(host) : host[i] \in SpaceTok
\* parsed.hostname : the host, lowercased by the URL parser
UrlHostname(withProtocol) == toLowerCase(UrlHost(withProtocol))

normalizeDomainKey(input) ==
    IF ~Truthy(input) \/ input.t # "string" THEN Null
    ELSE LET withProtocol == IF HasSchemeI(input.v) THEN input.v
                             ELSE <<"https://">> \o input.v
         IN  IF ~UrlThrows(withProtocol)
             THEN LET host == toLowerCase(StripWwwI(UrlHostname(withProtocol)))
                  IN  IF ~IncludesDot(host) THEN Null ELSE Str(host)
             ELSE LET lowered == toLowerCase(trim(input.v))
                      noScheme == IF HasScheme(lowered) THEN Tail(lowered) ELSE lowered
                      cleaned == BeforeSlash(StripWww(noScheme))
                  IN  IF IncludesDot(cleaned) THEN Str(cleaned) ELSE Null

\* domain.replace(/\.(com|io|net|org|co|ai|app|dev|tech|xyz).*/, '')
TldTok == {"com", "io", "net", "org", "co", "ai", "app", "dev", "tech", "xyz"}
StripTld(s) ==
    LET hits == {i \in 1..(Len(s) - 1) : s[i] = "." /\ s[i + 1] \in TldTok}
    IN  IF hits = {} THEN s
        ELSE SubSeq(s, 1, (CHOOSE i \in hits : \A j \in hits : i <= j) - 1)

sanitizeCompetitor(raw) ==
    IF ~Truthy(raw) \/ ~TypeofObject(raw) THEN Null
    ELSE LET domain == normalizeDomainKey(
                 Or(Or(Or(Get(raw, "domain"), Get(raw, "url")), Get(raw, "website")),
                    Get(raw, "name")))
         IN  IF ~Truthy(domain) THEN Null
             ELSE LET fallbackName == Str(StripTld(domain.v))
                      name == trim(ToStr(Or(Or(Get(raw, "name"), fallbackName), domain)))
                      reason == trim(ToStr(Or(Get(raw, "reason"), Str(<<"Competitor">>))))
                      differentiator ==
                          IF Truthy(Get(raw, "differentiator"))
                          THEN Str(trim(ToStr(Get(raw, "differentiator"))))
                          ELSE Null
                  IN  Obj([domain |-> domain, name |-> Str(name),
                           reason |-> Str(reason), differentiator |-> differentiator])

\* Variant: a later entry of a domain already seen replaces the earlier one
RECURSIVE DedupeIntoLastWins(_, _)
DedupeIntoLastWins(merged, items) ==
    IF items = <<>> THEN merged
    ELSE LET sanitized == sanitizeCompetitor(Head(items))
         IN  IF ~Truthy(sanitized) THEN DedupeIntoLastWins(merged, Tail(items))
             ELSE IF \E i \in 1..Len(merged) : merged[i].v.domain = sanitized.v.domain
             THEN DedupeIntoLastWins(
                      [i \in 1..Len(merged) |->
                          IF merged[i].v.domain = sanitized.v.domain THEN sanitized
                          ELSE merged[i]],
                      Tail(items))
             ELSE DedupeIntoLastWins(Append(merged, sanitized), Tail(items))

\* The inner loop of mergeAndDedupeCompetitors over one list, `merged`
\* carrying the entries kept so far (seen = their domains).
RECURSIVE DedupeInto(_, _)
DedupeInto(merged, items) ==
    IF items = <<>> THEN merged
    ELSE LET sanitized == sanitizeCompetitor(Head(items))
             seen == {merged[i].v.domain : i \in 1..Len(merged)}
         IN  IF ~Truthy(sanitized) \/ sanitized.v.domain \in seen
             THEN DedupeInto(merged, Tail(items))
             ELSE DedupeInto(Append(merged, sanitized), Tail(items))

\* mergeAndDedupeCompetitors(...lists) : lists is the sequence of arguments
RECURSIVE MergeLists(_, _)
MergeLists(merged, lists) ==
    IF lists = <<>> THEN merged
    ELSE IF ~IsArray(Head(lists)) THEN MergeLists(merged, Tail(lists))
    ELSE MergeLists(DedupeInto(merged, Head(lists).v), Tail(lists))

mergeAndDedupeCompetitors(lists) == Arr(MergeLists(<<>>, lists))

(***************************************************************************)
(* Escalation triggers                                                     *)
(***************************************************************************)
MinFeatures == 3

\* Variant: a record with exactly three features counts as thin
shouldEscalateAtThree(result) ==
    IF ~Truthy(result) THEN TRUE
    ELSE LET lowConfidence ==
                 toLowerCase(ToStr(Or(Get(result, "confidence"), Str(<<>>)))) = <<"low">>
             features == Get(result, "features")
             missingCore == \/ ~Truthy(Get(result, "about"))
                            \/ ~Truthy(Get(result, "niche"))
                            \/ ~IsArray(features)
                            \/ Len(features.v) <= MinFeatures
         IN  lowConfidence \/ missingCore

shouldEscalateToMaster(result) ==
    IF ~Truthy(result) THEN TRUE
    ELSE LET lowConfidence ==
                 toLowerCase(ToStr(Or(Get(result, "confidence"), Str(<<>>)))) = <<"low">>
             features == Get(result, "features")
             missingCore == \/ ~Truthy(Get(result, "about"))
                            \/ ~Truthy(Get(result, "niche"))
                            \/ ~IsArray(features)
                            \/ Len(features.v) < MinFeatures
         IN  lowConfidence \/ missingCore

(***************************************************************************)
(* Output normalizer                                                       *)
(***************************************************************************)
\* A JavaScript exception leaving the function (TypeError)
Throw == [t |-> "throw"]

Set(o, k, x) == Obj((k :> x) @@ o.v)
Del(o, k) == Obj([f \in (DOMAIN o.v) \ {k} |-> o.v[f]])

\* x?.length is truthy
HasLength(x) ==
    CASE x.t = "array" -> x.v # <<>>
      [] x.t = "string" -> x.v # <<>>
      [] x.t = "object" -> Truthy(Get(x, "length"))
      [] OTHER -> FALSE

\* xs.join(sep) for an array xs
Join(xs, sep) ==
    JoinStrs([i \in 1..Len(xs.v) |->
                 IF xs.v[i].t \in {"null", "undefined"} THEN <<>> ELSE ToStr(xs.v[i])], sep)

\* parts.join(' - ') || null, parts being the truthy values pushed
RECURSIVE Truthies(_)
Truthies(xs) ==
    IF xs = <<>> THEN <<>>
    ELSE IF Truthy(Head(xs)) THEN <<Head(xs)>> \o Truthies(Tail(xs))
    ELSE Truthies(Tail(xs))
JoinParts(parts) ==
    LET s == Join(Arr(Truthies(parts)), <<" - ">>)
    IN  IF s = <<>> THEN Null ELSE Str(s)

\* x?.length ? x.join(', ') : nothing ; a non-array with a length has no join
ListPart(x) == IF HasLength(x) /\ IsArray(x) THEN Str(Join(x, <<", ">>)) ELSE Undef
ListPartThrows(x) == HasLength(x) /\ ~IsArray(x)

\* lines 447-455
FlattenIcp(result) ==
    LET icp == Get(result, "icp")
        triggers == ListPart(Get(icp, "triggerEvents"))
    IN  IF Truthy(icp) /\ TypeofObject(icp)
        THEN Set(result, "icp",
                 JoinParts(<<Get(icp, "buyerPersona"), Get(icp, "companySize"),
                             ListPart(Get(icp, "industries")),
                             IF Truthy(triggers) THEN Str(<<"Triggers: ">> \o triggers.v)
                             ELSE Undef>>))
        ELSE result
IcpThrows(result) ==
    LET icp == Get(result, "icp")
    IN  /\ Truthy(icp) /\ TypeofObject(icp)
        /\ \/ ListPartThrows(Get(icp, "industries"))
           \/ ListPartThrows(Get(icp, "triggerEvents"))

\* f => f.items || [f.name || f.category || String(f)], flattened one level
FlatMapItem(f) ==
    LET items == Get(f, "items")
    IN  IF Truthy(items) THEN (IF IsArray(items) THEN items.v ELSE <<items>>)
        ELSE <<Or(Or(Get(f, "name"), Get(f, "category")), Str(ToStr(f)))>>
RECURSIVE FlatMapFeatures(_)
FlatMapFeatures(fs) ==
    IF fs = <<>> THEN <<>> ELSE FlatMapItem(Head(fs)) \o FlatMapFeatures(Tail(fs))

\* lines 457-461
FlattenFeatures(result) ==
    LET features == Get(result, "features")
        grouped == IsArray(features) /\ Len(features.v) > 0 /\ TypeofObject(features.v[1])
        flat == IF grouped THEN Arr(FlatMapFeatures(features.v)) ELSE features
    IN  Set(result, "features", IF IsArray(flat) THEN Arr(Truthies(flat.v)) ELSE Arr(<<>>))
\* f.items of a null entry is a TypeError
FeaturesThrows(result) ==
    LET features == Get(result, "features")
    IN  /\ IsArray(features) /\ Len(features.v) > 0 /\ TypeofObject(features.v[1])
        /\ \E i \in 1..Len(features.v) : features.v[i].t \in {"null", "undefined"}

\* lines 463-472
NormalizePricing(result) ==
    LET pricing == Get(result, "pricing")
        tiers == Get(pricing, "tiers")
        p1 == IF Truthy(pricing) /\ ~IsArray(pricing)
              THEN (IF Truthy(tiers) /\ IsArray(tiers) THEN tiers ELSE Arr(<<>>))
              ELSE pricing
    IN  Set(result, "pricing", IF IsArray(p1) THEN p1 ELSE Arr(<<>>))

\* lines 474-488
NormalizeFunding(result) ==
    LET funding == Get(result, "funding")
        r1 == IF Truthy(funding) /\ TypeofObject(funding)
              THEN Set(result, "funding",
                       JoinParts(<<Get(funding, "totalRaised"), Get(funding, "stage"),
                                   Get(funding, "lastRound")>>))
              ELSE result
        r2 == Set(r1, "teamSize",
                  Or(Or(Or(Get(r1, "teamSize"), Get(r1, "employeeRange")),
                        Get(r1, "team_size")), Null))
        r3 == Set(r2, "funding", Or(Or(Get(r2, "funding"), Get(r2, "fundingTotal")), Null))
    IN  Del(Del(Del(r3, "employeeRange"), "team_size"), "fundingTotal")

\* lines 490-500
FlattenSupport(result) ==
    LET support == Get(result, "support")
        hours == Get(support, "hours")
        r1 == IF Truthy(hours)
              THEN Set(result, "activeHours", Or(Get(result, "activeHours"), hours))
              ELSE result
    IN  IF Truthy(support) /\ TypeofObject(support)
        THEN Set(r1, "support",
                 JoinParts(<<ListPart(Get(support, "channels")), hours,
                             Get(support, "notes")>>))
        ELSE result
SupportThrows(result) ==
    LET support == Get(result, "support")
    IN  Truthy(support) /\ TypeofObject(support) /\ ListPartThrows(Get(support, "channels"))

arrayFields ==
    {"integrations", "compliance", "techStack", "limitations", "commonObjections",
     "blogTopics", "segments", "contentThemes", "partnerships", "notableCustomers",
     "competitors", "searchesPerformed"}
complexArrayFields == {"founders", "reviews", "caseStudies", "contact"}

\* lines 502-514 : every field of `fields` that is no array becomes []
EnsureArrays(result, fields) ==
    Obj([k \in (DOMAIN result.v) \cup fields |->
            IF k \in fields /\ ~IsArray(Get(result, k)) THEN Arr(<<>>) ELSE result.v[k]])

profileGroups ==
    {"social", "contentProfiles", "developerProfiles", "reviewProfiles",
     "businessProfiles", "appProfiles"}
profileDefaults(objKey) ==
    CASE objKey = "social" ->
           {"twitter", "linkedin", "facebook", "instagram", "threads", "bluesky", "tiktok"}
      [] objKey = "contentProfiles" ->
           {"youtube", "medium", "substack", "podcast", "pinterest", "dribbble"}
      [] objKey = "developerProfiles" ->
           {"github", "productHunt", "discord", "slackCommunity", "reddit"}
      [] objKey = "reviewProfiles" ->
           {"g2", "capterra", "trustpilot", "glassdoor", "yelp", "bbb"}
      [] objKey = "businessProfiles" ->
           {"crunchbase", "wikipedia", "googleBusiness", "wellfound"}
      [] objKey = "appProfiles" -> {"appStore", "playStore"}

\* Variant: only the keys the provider supplied are copied
ProfileGroupSupplied(given, objKey) ==
    LET source == IF Truthy(given) /\ given.t = "object" THEN given ELSE EmptyObj
    IN  Obj([key \in profileDefaults(objKey) \cap DOMAIN source.v |-> source.v[key]])

\* lines 516-539 : result[objKey] || {}, then source[key] ?? null for every
\* known key of the group
ProfileGroup(given, objKey) ==
    LET source == IF Truthy(given) /\ given.t = "object" THEN given ELSE EmptyObj
    IN  Obj([key \in profileDefaults(objKey) |->
                IF Get(source, key).t \in {"undefined", "null"} THEN Null
                ELSE Get(source, key)])
EnsureProfiles(result) ==
    Obj([k \in (DOMAIN result.v) \cup profileGroups |->
            IF k \in profileGroups THEN ProfileGroup(Get(result, k), k) ELSE result.v[k]])

stringFields ==
    {"name", "domain", "usp", "icp", "tone", "about", "industry", "niche",
     "productModel", "yearFounded", "headquarters", "teamSize", "funding", "support",
     "confidence", "confidenceNotes", "strengthVsTarget", "weaknessVsTarget",
     "pricingComparison", "marketPositionVsTarget", "guarantees", "roadmap",
     "changelog", "activeHours", "contentStrategy", "researchDate"}

\* lines 541-549 : a string field that is undefined becomes null
EnsureStrings(result) ==
    Obj([k \in (DOMAIN result.v) \cup stringFields |->
            IF k \in stringFields /\ Get(result, k).t = "undefined" THEN Null
            ELSE result.v[k]])

normalizeResearchOutput(raw) ==
    IF ~Truthy(raw) THEN Null
    ELSE IF IcpThrows(raw) THEN Throw
    ELSE LET r1 == FlattenIcp(raw)
         IN  IF FeaturesThrows(r1) THEN Throw
             ELSE LET r2 == NormalizeFunding(NormalizePricing(FlattenFeatures(r1)))
                  IN  IF SupportThrows(r2) THEN Throw
                      ELSE EnsureStrings(
                               EnsureProfiles(
                                   EnsureArrays(FlattenSupport(r2),
                                                arrayFields \cup complexArrayFields)))

(***************************************************************************)
(* Fill-missing merge and the coverage checklist                           *)
(***************************************************************************)
isEmptyValue(value) ==
    CASE value.t \in {"null", "undefined"} -> TRUE
      [] value.t = "string" -> trim(value.v) = <<>>
      [] value.t = "array" -> value.v = <<>>
      [] value.t = "object" -> DOMAIN value.v = {}
      [] OTHER -> FALSE

\* The key dedupeArray compares items by: the trimmed lowercase text of a
\* string, the JSON serialization of anything else (equal values serialize
\* equally; the order of an object's keys is not modelled).
DedupeKey(item) ==
    IF item.t = "string" THEN [text |-> toLowerCase(trim(item.v))] ELSE [json |-> item]
EmptyKey(item) == item.t = "undefined" \/ (item.t = "string" /\ trim(item.v) = <<>>)

RECURSIVE DedupeFrom(_, _)
DedupeFrom(out, values) ==
    IF values = <<>> THEN out
    ELSE LET item == Head(values)
             seen == {DedupeKey(out[i]) : i \in 1..Len(out)}
         IN  IF EmptyKey(item) \/ DedupeKey(item) \in seen
             THEN DedupeFrom(out, Tail(values))
             ELSE DedupeFrom(Append(out, item), Tail(values))

dedupeArray(values) == Arr(DedupeFrom(<<>>, values))

RECURSIVE mergeFillMissing(_, _)
mergeFillMissing(existing, patch) ==
    CASE patch.t \in {"null", "undefined"} -> existing
      [] patch.t = "array" ->
           IF isEmptyValue(existing) THEN dedupeArray(patch.v)
           ELSE IF IsArray(existing) THEN dedupeArray(existing.v \o patch.v)
           ELSE existing
      [] patch.t = "object" ->
           LET base == IF existing.t = "object" THEN existing ELSE EmptyObj
           IN  Obj([key \in (DOMAIN base.v) \cup (DOMAIN patch.v) |->
                       IF key \in DOMAIN patch.v
                       THEN mergeFillMissing(Get(base, key), patch.v[key])
                       ELSE base.v[key]])
      [] OTHER -> IF isEmptyValue(existing) THEN patch ELSE existing

CoverageThreshold == 8

AtLeast(x, n) == IsArray(x) /\ Len(x.v) >= n

\* requiredChecks of hasDataReviewCoverageGaps, as the set of checks met
CoverageChecksMet(result) ==
    {c \in 1..12 :
        CASE c = 1 -> Truthy(Get(result, "about"))
          [] c = 2 -> Truthy(Get(result, "usp"))
          [] c = 3 -> Truthy(Get(result, "icp"))
          [] c = 4 -> Truthy(Get(result, "tone"))
          [] c = 5 -> AtLeast(Get(result, "features"), MinFeatures)
          [] c = 6 -> AtLeast(Get(result, "integrations"), 1)
          [] c = 7 -> AtLeast(Get(result, "pricing"), 1)
          [] c = 8 -> AtLeast(Get(result, "compliance"), 1)
          [] c = 9 -> AtLeast(Get(result, "reviews"), 1)
          [] c = 10 -> \/ AtLeast(Get(result, "caseStudies"), 1)
                       \/ AtLeast(Get(result, "notableCustomers"), 1)
          [] c = 11 -> \/ ~isEmptyValue(Get(result, "teamSize"))
                       \/ ~isEmptyValue(Get(result, "funding"))
          [] c = 12 -> \/ ~isEmptyValue(Get(result, "support"))
                       \/ ~isEmptyValue(Get(result, "contact"))}

hasDataReviewCoverageGaps(result) ==
    IF ~Truthy(result) THEN TRUE
    ELSE Cardinality(CoverageChecksMet(result)) < CoverageThreshold

(***************************************************************************)
(* Provider router: order, error classification                            *)
(***************************************************************************)
Providers == {"openai", "gemini", "perplexity"}
preferredFallbackOrder == <<"openai", "gemini", "perplexity">>

\* String(process.env.AI_PROVIDER_PRIMARY || 'openai').toLowerCase();
\* "" stands for an unset variable
LowerEnv(e) ==
    CASE e = "" -> "openai"
      [] e = "Perplexity" -> "perplexity"
      [] e = "GEMINI" -> "gemini"
      [] OTHER -> e

\* Variant: the primary is not taken out of the fallbacks
getProviderOrderUnfiltered(e) ==
    LET configuredPrimary == LowerEnv(e)
        primary == IF configuredPrimary \in Providers THEN configuredPrimary ELSE "openai"
    IN  <<primary>> \o preferredFallbackOrder

getProviderOrder(e) ==
    LET configuredPrimary == LowerEnv(e)
        primary == IF configuredPrimary \in Providers THEN configuredPrimary ELSE "openai"
        fallbacks == SelectSeq(preferredFallbackOrder, LAMBDA p : p # primary)
    IN  <<primary>> \o fallbacks

\* An Error is its message, a token sequence.
MsgIncludes(message, toks) == \E k \in 1..Len(message) : LowerTok(message[k]) \in toks

isTimeoutError(error) ==
    MsgIncludes(error, {"timed out", "timeout", "etimedout", "deadline exceeded"})

isGeminiQuotaError(error) ==
    MsgIncludes(error, {"quota", "rate limit", "free_tier"})

AllFailed == <<"All configured AI providers failed">>
NoProviders == <<"No providers available after skipProviders filter">>

\* What an adapter throws for an upstream failure: callOpenAI wraps the
\* message of the failed request, callGemini and callPerplexity let it pass.
AdapterError(provider, message) ==
    IF provider = "openai" THEN <<"OpenAI responses failed: ">> \o message ELSE message

(***************************************************************************)
(* The environment: what upstream providers answer and how they fail       *)
(***************************************************************************)
TimeoutMsg == <<"Request ", "timed out", ".">>
QuotaMsg == <<"429 ", "quota", " exceeded">>
ServerMsg == <<"500 Internal Server Error">>
UpstreamErrors == {TimeoutMsg, QuotaMsg, ServerMsg}

Host(label) == Str(<<label, ".", "com">>)
Comp(domain) == Obj([domain |-> domain])
Named(domain, name) == Obj([domain |-> domain, name |-> Str(name)])
Feature(k) == Str(<<"feature", ToString(k)>>)
FiveCompetitors == Arr([k \in 1..5 |-> Comp(Str(<<"rival", ToString(k), ".", "io">>))])

\* A client record as a provider writes it
ClientJson(name, confidence, nFeatures, competitors) ==
    Obj([name |-> Str(<<name>>), domain |-> Str(<<"acme", ".", "io">>),
         confidence |-> Str(<<confidence>>), about |-> Str(<<"about">>),
         niche |-> Str(<<"niche">>), features |-> Arr([k \in 1..nFeatures |-> Feature(k)]),
         competitors |-> competitors])

LiteStrong == ClientJson("Acme", "high", 4, FiveCompetitors)
LiteFewCompetitors ==
    ClientJson("Acme", "high", 4,
               Arr(<<Named(Host("foo"), <<"Foo">>), Named(Host("foo"), <<"Foo Inc">>)>>))
LiteLowConfidence == ClientJson("Acme", "LOW", 4, Arr(<<Comp(Host("a"))>>))
LiteFewFeatures == ClientJson("Acme", "medium", 2, Arr(<<>>))
LiteDoubleWww ==
    ClientJson("Acme", "medium", 3,
               Arr(<<Comp(Str(<<"www", ".", "www", ".", "a", ".", "com">>)),
                     Comp(Host("a"))>>))
LiteNullFeature ==
    Set(ClientJson("Acme", "low", 3, Arr(<<Comp(Host("a"))>>)),
        "features", Arr(<<Null, Feature(1), Feature(2), Feature(3)>>))

\* A thin record whose competitor list spells one host in two ways
LiteLowDoubleWww ==
    ClientJson("Acme", "low", 4,
               Arr(<<Comp(Str(<<"www", ".", "www", ".", "a", ".", "com">>)),
                     Named(Host("c"), <<"C">>)>>))

\* The provider echoes the domain as a URL
LiteUrlDomain ==
    Set(LiteStrong, "domain",
        Str(<<"HTTPS://", "WWW", ".", "acme", ".", "io", "/", "about">>))

MasterStrong == ClientJson("Acme (master)", "high", 4, FiveCompetitors)
MasterNoCompetitors == ClientJson("Acme (master)", "high", 4, Arr(<<>>))
MasterOverlap ==
    ClientJson("Acme (master)", "medium", 3,
               Arr(<<Comp(Str(<<"https://", "A", ".", "com", "/">>)), Comp(Host("b"))>>))

DiscoveryTwo == Obj([competitors |-> Arr(<<Comp(Host("b")), Comp(Host("c"))>>)])
DiscoveryFive == Obj([competitors |-> FiveCompetitors])
DiscoveryNone == EmptyObj

\* A competitor record meeting `met` of the twelve coverage checks
CompetitorJson(met) ==
    LET text(c, k) == IF c \in met THEN Str(<<k>>) ELSE Null
        list(c, k) == IF c \in met THEN Arr(<<Str(<<k>>)>>) ELSE Arr(<<>>)
    IN  Obj([name |-> Str(<<"Rival">>), domain |-> Str(<<"rival1", ".", "io">>),
             confidence |-> Str(<<"medium">>), niche |-> Str(<<"niche">>),
             about |-> text(1, "about"), usp |-> text(2, "usp"), icp |-> text(3, "icp"),
             tone |-> text(4, "tone"),
             features |-> IF 5 \in met THEN Arr([k \in 1..3 |-> Feature(k)]) ELSE Arr(<<>>),
             integrations |-> list(6, "slack"), pricing |-> list(7, "pro"),
             compliance |-> list(8, "soc2"), reviews |-> list(9, "g2"),
             notableCustomers |-> list(10, "initech"), teamSize |-> text(11, "11-50"),
             support |-> text(12, "email")])

CompetitorCovered == CompetitorJson(1..8)
CompetitorGaps == CompetitorJson(1..7)
CompetitorSparse == CompetitorJson({1})

BackfillPatch ==
    Obj([about |-> Str(<<"about (backfill)">>), tone |-> Str(<<"tone (backfill)">>),
         compliance |-> Arr(<<Str(<<"gdpr">>)>>), reviews |-> Arr(<<Str(<<"G2">>)>>),
         support |-> Str(<<"chat">>)])
BackfillBroken == Obj([features |-> Arr(<<Null>>)])
\* The provider writes a narrative field as a nested object
BackfillNested ==
    Obj([tone |-> Obj([voice |-> Str(<<"formal">>)]), reviews |-> Arr(<<Str(<<"G2">>)>>)])

StructuralData == Obj([headline |-> Str(<<"headline">>)])

\* What the collaborators may answer: the structural scraper (null: it threw)
\* and the providers, by the context label of the router call
FullUpstream ==
    [c \in {"scrape", "research-domain-primary", "research-domain-master",
            "competitor-discovery-recovery", "research-competitor-primary",
            "research-competitor-master", "postcall-enrichment-competitor"} |->
        CASE c = "scrape" -> {Null, StructuralData}
          [] c = "research-domain-primary" ->
               {LiteStrong, LiteFewCompetitors, LiteLowConfidence, LiteFewFeatures,
                LiteDoubleWww, LiteNullFeature, LiteUrlDomain, LiteLowDoubleWww}
          [] c = "research-domain-master" ->
               {MasterStrong, MasterNoCompetitors, MasterOverlap}
          [] c = "competitor-discovery-recovery" ->
               {DiscoveryTwo, DiscoveryFive, DiscoveryNone}
          [] c = "research-competitor-primary" ->
               {CompetitorCovered, CompetitorGaps, CompetitorSparse}
          [] c = "research-competitor-master" -> {CompetitorCovered}
          [] c = "postcall-enrichment-competitor" ->
               {BackfillPatch, BackfillBroken, BackfillNested}]

SmallUpstream ==
    [c \in DOMAIN FullUpstream |->
        CASE c = "scrape" -> {StructuralData}
          [] c = "research-domain-primary" -> {LiteLowConfidence}
          [] c = "research-domain-master" -> {MasterNoCompetitors}
          [] c = "competitor-discovery-recovery" -> {DiscoveryTwo}
          [] c = "research-competitor-primary" -> {CompetitorGaps}
          [] c = "research-competitor-master" -> {CompetitorCovered}
          [] c = "postcall-enrichment-competitor" -> {BackfillPatch}]

EnvValues == {"", "GEMINI", "Perplexity", "claude"}

(***************************************************************************)
(* State                                                                   *)
(***************************************************************************)
Invocations == {"r1", "r2"}

VARIABLES
    env,                   \* process.env.AI_PROVIDER_PRIMARY
    clients,               \* the invocations callers make
    upstream,              \* the answers providers may give, by context label
    failures,              \* the messages upstream requests may fail with
    observer,              \* options.onPrimaryFailure of a direct router call
    credentials,           \* the providers whose API key is set in process.env
    op,                    \* per invocation: the operation invoked
    pc,                    \* per invocation: where its code stands
    structuralData,        \* local of researchDomain / researchCompetitor
    result,                \* local `result`
    competitors,           \* local `competitors` of researchDomain
    skipOpenAIForThisRun,  \* local of researchDomain
    normalized,            \* local `normalized` of researchCompetitor
    returned,              \* what the invocation resolved with (Throw: rejected)
    review,                \* locals of enrichDataReviewPostCall
    stage,                 \* callPrimaryThenFallback: its `context` argument
    order,                 \* callPrimaryThenFallback: providerOrder
    idx,                   \* callPrimaryThenFallback: index into providerOrder
    rout,                  \* how the router invocation ended
    inflight,              \* provider calls started and not yet settled
    called,                \* history: the calls of the current router invocation
    notified,              \* history: the callback calls of that router invocation
    routers,               \* history: the router invocations made so far
    timedOut,              \* history: an OpenAI call of this invocation timed out
    lite,                  \* history: what the primary pass returned
    before,                \* history: `competitors` when the recovery pass started
    threw,                 \* history: the router invocations that threw
    steps,                 \* history: steps taken by the invocation
    fnIn,                  \* argument of the pure function under check
    fnOut                  \* its result

envVars == <<env, clients, upstream, failures, observer, credentials>>
localVars == <<op, structuralData, result, competitors, skipOpenAIForThisRun,
               normalized, returned, review>>
routerVars == <<stage, order, idx, rout, inflight, called, notified>>
histVars == <<routers, timedOut, lite, before, threw>>
fnVars == <<fnIn, fnOut>>
vars == <<envVars, localVars, routerVars, histVars, pc, steps, fnVars>>

None == [t |-> "none"]
\* no caller passes options.onPrimaryFailure to a direct router call
NoObserver == [i \in Invocations |-> "none"]
NotApplied == [done |-> FALSE]
Applied(x) == [done |-> TRUE, value |-> x]
\* enrichDataReviewPostCall before it has run: the competitors argument, the
\* position of the for loop in it, and the three results
NoReview ==
    [competitors |-> Null, at |-> 1, clientDataPatch |-> None,
     competitorPatchesByDomain |-> <<>>, failedCompetitors |-> <<>>]
Returned(x) == [ok |-> TRUE, value |-> x]
Failed(error) == [ok |-> FALSE, error |-> error]

Idle ==
    /\ op = [i \in Invocations |-> "none"]
    /\ pc = [i \in Invocations |-> "idle"]
    /\ structuralData = [i \in Invocations |-> Null]
    /\ result = [i \in Invocations |-> Null]
    /\ competitors = [i \in Invocations |-> Arr(<<>>)]
    /\ skipOpenAIForThisRun = [i \in Invocations |-> FALSE]
    /\ normalized = [i \in Invocations |-> Null]
    /\ returned = [i \in Invocations |-> None]
    /\ review = [i \in Invocations |-> NoReview]
    /\ stage = [i \in Invocations |-> "none"]
    /\ order = [i \in Invocations |-> <<>>]
    /\ idx = [i \in Invocations |-> 0]
    /\ rout = [i \in Invocations |-> None]
    /\ inflight = [i \in Invocations |-> {}]
    /\ called = [i \in Invocations |-> <<>>]
    /\ notified = [i \in Invocations |-> <<>>]
    /\ routers = [i \in Invocations |-> <<>>]
    /\ timedOut = [i \in Invocations |-> FALSE]
    /\ lite = [i \in Invocations |-> None]
    /\ before = [i \in Invocations |-> None]
    /\ threw = [i \in Invocations |-> {}]
    /\ steps = [i \in Invocations |-> 0]

\* One caller at a time, every answer the providers may give
Init ==
    /\ env \in EnvValues
    /\ clients = {"r1"}
    /\ upstream = FullUpstream
    /\ failures = UpstreamErrors
    /\ observer = NoObserver
    /\ credentials = Providers
    /\ Idle
    /\ fnIn = None
    /\ fnOut = NotApplied

Step(i) == steps' = [steps EXCEPT ![i] = @ + 1]

(***************************************************************************)
(* callPrimaryThenFallback                                                 *)
(***************************************************************************)
\* lines 385-393 : the effective order; an empty one is thrown on at once
EnterRouter(i, context, skipProviders) ==
    LET providerOrder == SelectSeq(getProviderOrder(env), LAMBDA p : p \notin skipProviders)
    IN  /\ stage' = [stage EXCEPT ![i] = context]
        /\ order' = [order EXCEPT ![i] = providerOrder]
        /\ idx' = [idx EXCEPT ![i] = 1]
        /\ called' = [called EXCEPT ![i] = <<>>]
        /\ notified' = [notified EXCEPT ![i] = <<>>]
        /\ routers' = [routers EXCEPT ![i] = Append(@, context)]
        /\ rout' = [rout EXCEPT ![i] = IF providerOrder = <<>> THEN Failed(NoProviders)
                                       ELSE None]
        /\ pc' = [pc EXCEPT ![i] = IF providerOrder = <<>> THEN "routed" ELSE "try"]
        /\ UNCHANGED inflight

\* Variant: the remaining candidates are all started together
LaunchAll(providerOrder, index) == {providerOrder[k] : k \in index..Len(providerOrder)}

\* await primaryFn(prompt, providerOptions) / await providerFn(...): one call
Launch(providerOrder, index) == {providerOrder[index]}

\* lines 400, 427 : the call to providerOrder[index] starts
CallProvider(i) ==
    /\ pc[i] = "try"
    /\ inflight' = [inflight EXCEPT ![i] = @ \cup Launch(order[i], idx[i])]
    /\ pc' = [pc EXCEPT ![i] = "await"]
    /\ Step(i)
    /\ UNCHANGED <<envVars, localVars, stage, order, idx, rout, called, notified, histVars,
                   fnVars>>

\* The error of an adapter whose key is not set
MissingKey(provider) ==
    CASE provider = "gemini" -> <<"No ", "GOOGLE_API_KEY">>
      [] provider = "perplexity" -> <<"No ", "PERPLEXITY_API_KEY">>
      [] provider = "openai" -> <<"No ", "OPENAI_API_KEY">>

\* Variant: the request is sent before the key is looked at
MakesRequestAlways(provider, keys) == TRUE

\* lines 959-960, 997-998, 1029 : without its key an adapter throws at once
MakesRequest(provider, keys) == provider \in keys

\* lines 401-402, 428-429 : the call resolves and the router returns its value
ProviderReturns(i) ==
    /\ pc[i] = "await"
    /\ order[i][idx[i]] \in credentials
    /\ \E json \in upstream[stage[i]] :
          rout' = [rout EXCEPT ![i] = Returned(json)]
    /\ inflight' = [inflight EXCEPT ![i] = @ \ {order[i][idx[i]]}]
    /\ called' = [called EXCEPT ![i] =
                     Append(@, [provider |-> order[i][idx[i]], ok |-> TRUE, quota |-> FALSE,
                                request |-> TRUE])]
    /\ pc' = [pc EXCEPT ![i] = "routed"]
    /\ Step(i)
    /\ UNCHANGED <<envVars, localVars, stage, order, idx, notified, histVars, fnVars>>

\* The onPrimaryFailure observer researchDomain registers (lines 667-672);
\* the other router calls register none.
OnPrimaryFailure(context, skip, provider, error) ==
    IF context = "research-domain-primary"
    THEN skip \/ (provider = "openai" /\ isTimeoutError(error))
    ELSE skip

\* line 416 : the condition of the "Gemini quota detected on primary" warning
QuotaOnPrimary(index, provider, error) ==
    index = 1 /\ provider = "gemini" /\ isGeminiQuotaError(error)

\* options.onPrimaryFailure as the router sees it: the closure researchDomain
\* passes with its primary call, what a direct caller passes, or nothing
RegisteredObserver(o, context, passed) ==
    IF o = "callPrimaryThenFallback" THEN passed
    ELSE IF context = "research-domain-primary" THEN "closure"
    ELSE "none"

\* Variant: the callback is called for every provider that fails
ObserverDueOnEveryFailure(index, callback) == callback # "none"

\* lines 403-405 : in the catch of the primary call, when a function is given
ObserverDue(index, callback) == index = 1 /\ callback # "none"

\* Variant: the loop stops one candidate early
HasFallbackButLast(providerOrder, index) == index < Len(providerOrder) - 1

\* line 422 : index < providerOrder.length
HasFallback(providerOrder, index) == index < Len(providerOrder)

\* lines 403-420, 430-435 : the call rejects; the first provider's failure is
\* reported to the observer; the next provider is tried or the router throws
ProviderThrows(i) ==
    /\ pc[i] = "await"
    /\ \E message \in IF order[i][idx[i]] \in credentials THEN failures
                      ELSE {MissingKey(order[i][idx[i]])} :
          LET provider == order[i][idx[i]]
              error == IF provider \in credentials THEN AdapterError(provider, message)
                       ELSE message
          IN  /\ skipOpenAIForThisRun' =
                    [skipOpenAIForThisRun EXCEPT ![i] =
                        IF idx[i] = 1 THEN OnPrimaryFailure(stage[i], @, provider, error)
                        ELSE @]
              /\ timedOut' = [timedOut EXCEPT ![i] =
                                 @ \/ (provider = "openai" /\ isTimeoutError(error))]
              /\ called' = [called EXCEPT ![i] =
                               Append(@, [provider |-> provider, ok |-> FALSE,
                                          quota |-> QuotaOnPrimary(idx[i], provider, error),
                                          request |-> MakesRequest(provider, credentials)])]
              /\ LET callback == RegisteredObserver(op[i], stage[i], observer[i])
                 IN  notified' =
                        [notified EXCEPT ![i] =
                            IF ObserverDue(idx[i], callback)
                            THEN Append(@, [provider |-> provider, error |-> error,
                                            context |-> stage[i],
                                            threw |-> callback = "throws",
                                            calls |-> Len(called[i]) + 1])
                            ELSE @]
    /\ inflight' = [inflight EXCEPT ![i] = @ \ {order[i][idx[i]]}]
    /\ IF HasFallback(order[i], idx[i])
       THEN /\ idx' = [idx EXCEPT ![i] = @ + 1]
            /\ pc' = [pc EXCEPT ![i] = "try"]
            /\ UNCHANGED rout
       ELSE /\ rout' = [rout EXCEPT ![i] = Failed(AllFailed)]
            /\ pc' = [pc EXCEPT ![i] = "routed"]
            /\ UNCHANGED idx
    /\ Step(i)
    /\ UNCHANGED <<envVars, op, review, structuralData, result, competitors, normalized, returned,
                   stage, order, routers, lite, before, threw, fnVars>>

(***************************************************************************)
(* researchDomain and researchCompetitor                                   *)
(***************************************************************************)
minCompetitors == 5
fastestMode == FALSE
DEFAULT_CLIENT_PROMPT_MODE == "lite"
\* Variant: competitors are researched with the client's prompt mode
CompetitorModeDefault == "default"
DEFAULT_COMPETITOR_PROMPT_MODE == "competitor_enriched"

Operations == {"researchDomain", "researchCompetitor"}

\* promptMode of researchDomain (lines 651-653), activePromptMode of
\* researchCompetitor (lines 780-782)
PromptMode(o) ==
    IF o = "researchDomain"
    THEN (IF fastestMode THEN "fastest" ELSE DEFAULT_CLIENT_PROMPT_MODE)
    ELSE (IF DEFAULT_COMPETITOR_PROMPT_MODE = "default" THEN DEFAULT_CLIENT_PROMPT_MODE
          ELSE DEFAULT_COMPETITOR_PROMPT_MODE)

PrimaryContext(o) ==
    IF o = "researchDomain" THEN "research-domain-primary" ELSE "research-competitor-primary"
MasterContext(o) ==
    IF o = "researchDomain" THEN "research-domain-master" ELSE "research-competitor-master"
RecoveryContext == "competitor-discovery-recovery"
BackfillContext == "postcall-enrichment-competitor"

\* Continue without entering the router
Goto(i, label) ==
    /\ pc' = [pc EXCEPT ![i] = label]
    /\ UNCHANGED <<stage, order, idx, called, notified, routers, rout, inflight>>

\* researchDomain(domain) / researchCompetitor(domain, clientContext) is
\* called: fresh locals, then await scrapeStructuralData(domain)
Invoke(i) ==
    /\ i \in clients
    /\ pc[i] \in {"idle", "done"}
    /\ \E o \in Operations : op' = [op EXCEPT ![i] = o]
    /\ pc' = [pc EXCEPT ![i] = "scrape"]
    /\ structuralData' = [structuralData EXCEPT ![i] = Null]
    /\ result' = [result EXCEPT ![i] = Null]
    /\ competitors' = [competitors EXCEPT ![i] = Arr(<<>>)]
    /\ skipOpenAIForThisRun' = [skipOpenAIForThisRun EXCEPT ![i] = FALSE]
    /\ normalized' = [normalized EXCEPT ![i] = Null]
    /\ returned' = [returned EXCEPT ![i] = None]
    /\ review' = [review EXCEPT ![i] = NoReview]
    /\ stage' = [stage EXCEPT ![i] = "none"]
    /\ order' = [order EXCEPT ![i] = <<>>]
    /\ idx' = [idx EXCEPT ![i] = 0]
    /\ rout' = [rout EXCEPT ![i] = None]
    /\ called' = [called EXCEPT ![i] = <<>>]
    /\ notified' = [notified EXCEPT ![i] = <<>>]
    /\ routers' = [routers EXCEPT ![i] = <<>>]
    /\ timedOut' = [timedOut EXCEPT ![i] = FALSE]
    /\ lite' = [lite EXCEPT ![i] = None]
    /\ before' = [before EXCEPT ![i] = None]
    /\ threw' = [threw EXCEPT ![i] = {}]
    /\ steps' = [steps EXCEPT ![i] = 1]
    /\ UNCHANGED <<envVars, inflight, fnVars>>

\* Variant: a rejected scrape rejects the invocation
ScrapeSettlesOrAborts(i) ==
    /\ pc[i] = "scrape"
    /\ \E data \in upstream["scrape"] :
          /\ structuralData' = [structuralData EXCEPT ![i] = data]
          /\ IF data = Null
             THEN /\ returned' = [returned EXCEPT ![i] = Throw]
                  /\ Goto(i, "done")
             ELSE /\ EnterRouter(i, PrimaryContext(op[i]), {})
                  /\ UNCHANGED returned
    /\ Step(i)
    /\ UNCHANGED <<envVars, op, review, result, competitors, skipOpenAIForThisRun, normalized,
                   timedOut, lite, before, threw, fnVars>>

\* lines 640-674, 772-787 : the scrape resolves, or rejects and leaves
\* structuralData null; the primary router call is made
ScrapeSettles(i) ==
    /\ pc[i] = "scrape"
    /\ \E data \in upstream["scrape"] :
          structuralData' = [structuralData EXCEPT ![i] = data]
    /\ EnterRouter(i, PrimaryContext(op[i]), {})
    /\ Step(i)
    /\ UNCHANGED <<envVars, op, review, result, competitors, skipOpenAIForThisRun, normalized,
                   returned, timedOut, lite, before, threw, fnVars>>

\* discoveryResult.competitors.length > 0
NonEmptyList(x) == x.t \in {"array", "string"} /\ x.v # <<>>
\* Array.isArray(x.competitors) && x.competitors.length > 0
HasCompetitors(x) == IsArray(Get(x, "competitors")) /\ Get(x, "competitors").v # <<>>

\* lines 675-688 and 787-791 : the primary router call has ended
PrimaryPass(i) ==
    /\ pc[i] = "routed"
    /\ stage[i] = PrimaryContext(op[i])
    /\ IF rout[i].ok
       THEN /\ result' = [result EXCEPT ![i] = rout[i].value]
            /\ competitors' =
                  [competitors EXCEPT ![i] =
                      IF op[i] = "researchDomain" /\ HasCompetitors(rout[i].value)
                      THEN mergeAndDedupeCompetitors(<<Get(rout[i].value, "competitors")>>)
                      ELSE @]
            /\ UNCHANGED skipOpenAIForThisRun
       ELSE /\ skipOpenAIForThisRun' =
                  [skipOpenAIForThisRun EXCEPT ![i] =
                      IF op[i] = "researchDomain"
                      THEN \/ @
                           \/ isTimeoutError(rout[i].error)
                           \/ MsgIncludes(rout[i].error, {"openai responses failed: "})
                      ELSE @]
            /\ UNCHANGED <<result, competitors>>
    /\ lite' = [lite EXCEPT ![i] = IF rout[i].ok THEN rout[i].value ELSE Null]
    /\ threw' = [threw EXCEPT ![i] = IF rout[i].ok THEN @ ELSE @ \cup {stage[i]}]
    /\ Goto(i, "check_master")
    /\ Step(i)
    /\ UNCHANGED <<envVars, op, review, structuralData, normalized, returned, timedOut, before,
                   fnVars>>

\* Variant: the flag is one module-level variable shared by the invocations
SkipProvidersShared(i) ==
    IF \E j \in Invocations : skipOpenAIForThisRun[j] THEN {"openai"} ELSE {}

\* skipProviders: skipOpenAIForThisRun ? ["openai"] : []  (lines 701, 728)
SkipProviders(i) == IF skipOpenAIForThisRun[i] THEN {"openai"} ELSE {}

\* Variant: escalation does not ask for a result
EscalationDueWithoutResult(o, res) ==
    /\ (o = "researchDomain" => ~fastestMode)
    /\ PromptMode(o) = "lite"
    /\ shouldEscalateToMaster(res)

\* the conditions of lines 691 and 793
EscalationDue(o, res) ==
    /\ (o = "researchDomain" => ~fastestMode)
    /\ Truthy(res)
    /\ PromptMode(o) = "lite"
    /\ shouldEscalateToMaster(res)

\* Variant: the escalation trigger is evaluated again after the master block
AfterMasterAgain(o) == "check_master"

\* where the code continues after the master block
AfterMaster(o) == IF o = "researchDomain" THEN "check_recovery" ELSE "check_coverage"

\* lines 691-703 and 793-796 : escalate to the master prompt, or go on
MasterCheck(i) ==
    /\ pc[i] = "check_master"
    /\ IF EscalationDue(op[i], result[i])
       THEN EnterRouter(i, MasterContext(op[i]),
                        IF op[i] = "researchDomain" THEN SkipProviders(i) ELSE {})
       ELSE Goto(i, AfterMaster(op[i]))
    /\ Step(i)
    /\ UNCHANGED <<envVars, localVars, timedOut, lite, before, threw, fnVars>>

\* lines 704-714 and 797-802 : the master router call has ended
MasterPass(i) ==
    /\ pc[i] = "routed"
    /\ stage[i] = MasterContext(op[i])
    /\ IF rout[i].ok /\ Truthy(rout[i].value)
       THEN /\ result' = [result EXCEPT ![i] = rout[i].value]
            /\ competitors' =
                  [competitors EXCEPT ![i] =
                      IF op[i] = "researchDomain" /\ HasCompetitors(rout[i].value)
                      THEN mergeAndDedupeCompetitors(
                               <<@, Get(rout[i].value, "competitors")>>)
                      ELSE @]
       ELSE UNCHANGED <<result, competitors>>
    /\ threw' = [threw EXCEPT ![i] = IF rout[i].ok THEN @ ELSE @ \cup {stage[i]}]
    /\ Goto(i, AfterMaster(op[i]))
    /\ Step(i)
    /\ UNCHANGED <<envVars, op, review, structuralData, skipOpenAIForThisRun, normalized, returned,
                   timedOut, lite, before, fnVars>>

\* the condition of line 718
RecoveryDue(res, comps) == Truthy(res) /\ Len(comps.v) < minCompetitors

\* lines 718-730 : run the competitor-discovery recovery pass, or go on
RecoveryCheck(i) ==
    /\ pc[i] = "check_recovery"
    /\ IF RecoveryDue(result[i], competitors[i])
       THEN /\ EnterRouter(i, RecoveryContext, SkipProviders(i))
            /\ before' = [before EXCEPT ![i] = competitors[i]]
       ELSE /\ Goto(i, "finish")
            /\ UNCHANGED before
    /\ Step(i)
    /\ UNCHANGED <<envVars, localVars, timedOut, lite, threw, fnVars>>

\* lines 731-739 : the recovery router call has ended
RecoveryPass(i) ==
    /\ pc[i] = "routed"
    /\ stage[i] = RecoveryContext
    /\ competitors' =
          [competitors EXCEPT ![i] =
              IF /\ rout[i].ok
                 /\ Truthy(rout[i].value)
                 /\ Truthy(Get(rout[i].value, "competitors"))
                 /\ NonEmptyList(Get(rout[i].value, "competitors"))
              THEN mergeAndDedupeCompetitors(<<@, Get(rout[i].value, "competitors")>>)
              ELSE @]
    /\ threw' = [threw EXCEPT ![i] = IF rout[i].ok THEN @ ELSE @ \cup {stage[i]}]
    /\ Goto(i, "finish")
    /\ Step(i)
    /\ UNCHANGED <<envVars, op, review, structuralData, result, skipOpenAIForThisRun, normalized,
                   returned, timedOut, lite, before, fnVars>>

\* lines 742-762 : return null, or { data, competitors } (timings are left
\* out); an exception of the normalizer rejects the invocation
DomainReturn(res, comps) ==
    IF ~Truthy(res) THEN Null
    ELSE LET data == normalizeResearchOutput(Set(res, "competitors", comps))
         IN  IF data = Throw THEN Throw
             ELSE Obj([data |-> data,
                       competitors |->
                           mergeAndDedupeCompetitors(<<Get(data, "competitors")>>)])

Finish(i) ==
    /\ pc[i] = "finish"
    /\ returned' = [returned EXCEPT ![i] = DomainReturn(result[i], competitors[i])]
    /\ Goto(i, "done")
    /\ Step(i)
    /\ UNCHANGED <<envVars, op, review, structuralData, result, competitors, skipOpenAIForThisRun,
                   normalized, histVars, fnVars>>

\* lines 805-822 : return null, normalize, and run the backfill pass when the
\* record has coverage gaps
CoverageCheck(i) ==
    /\ pc[i] = "check_coverage"
    /\ LET record == normalizeResearchOutput(result[i])
       IN  IF ~Truthy(result[i]) \/ record = Throw
           THEN /\ returned' = [returned EXCEPT ![i] = record]
                /\ Goto(i, "done")
                /\ UNCHANGED normalized
           ELSE /\ normalized' = [normalized EXCEPT ![i] = record]
                /\ IF hasDataReviewCoverageGaps(record)
                   THEN /\ EnterRouter(i, BackfillContext, {})
                        /\ UNCHANGED returned
                   ELSE /\ returned' = [returned EXCEPT ![i] = record]
                        /\ Goto(i, "done")
    /\ Step(i)
    /\ UNCHANGED <<envVars, op, review, structuralData, result, competitors, skipOpenAIForThisRun,
                   timedOut, lite, before, threw, fnVars>>

\* enrichEntityPostCall, lines 889-894 : the router call's value, normalized;
\* both the router and the normalizer may throw
BackfillOutcome(r) == IF r.ok THEN normalizeResearchOutput(r.value) ELSE Throw

\* Variant: an exception of the backfill reaches the caller
BackfillOrThrow(current, backfill) ==
    IF backfill = Throw THEN Throw
    ELSE IF Truthy(backfill) THEN mergeFillMissing(current, backfill)
    ELSE current

\* lines 809-830 : the try block around the backfill; its catch keeps the
\* record as it was
BackfillOrKeep(current, backfill) ==
    IF backfill # Throw /\ Truthy(backfill) THEN mergeFillMissing(current, backfill)
    ELSE current

\* lines 823-832 : merge the backfill, fill-missing only, and return
BackfillPass(i) ==
    /\ pc[i] = "routed"
    /\ stage[i] = BackfillContext
    /\ LET backfill == BackfillOutcome(rout[i])
           merged == BackfillOrKeep(normalized[i], backfill)
       IN  /\ normalized' = [normalized EXCEPT ![i] = merged]
           /\ returned' = [returned EXCEPT ![i] = merged]
    /\ threw' = [threw EXCEPT ![i] = IF rout[i].ok THEN @ ELSE @ \cup {stage[i]}]
    /\ Goto(i, "done")
    /\ Step(i)
    /\ UNCHANGED <<envVars, op, review, structuralData, result, competitors, skipOpenAIForThisRun,
                   timedOut, lite, before, fnVars>>

Next ==
    \E i \in Invocations :
        \/ Invoke(i)
        \/ ScrapeSettles(i)
        \/ CallProvider(i)
        \/ ProviderReturns(i)
        \/ ProviderThrows(i)
        \/ PrimaryPass(i)
        \/ MasterCheck(i)
        \/ MasterPass(i)
        \/ RecoveryCheck(i)
        \/ RecoveryPass(i)
        \/ Finish(i)
        \/ CoverageCheck(i)
        \/ BackfillPass(i)

Spec == Init /\ [][Next]_vars

\* Two callers whose invocations interleave at every await
InitConcurrent ==
    /\ env = ""
    /\ clients = Invocations
    /\ upstream = SmallUpstream
    /\ failures = {TimeoutMsg}
    /\ observer = NoObserver
    /\ credentials = Providers
    /\ Idle
    /\ fnIn = None
    /\ fnOut = NotApplied

SpecConcurrent == InitConcurrent /\ [][Next]_vars

(***************************************************************************)
(* callPrimaryThenFallback called on its own, with a callback of any kind  *)
(***************************************************************************)
\* What options.onPrimaryFailure may be: absent, a function that returns, a
\* function that throws
ObserverKinds == {"none", "returns", "throws"}

\* context defaults to "research"
DefaultContext == "research"

InitRouter ==
    /\ env \in EnvValues
    /\ clients = {"r1"}
    /\ upstream = (DefaultContext :> {LiteStrong, DiscoveryNone}) @@ FullUpstream
    /\ failures = UpstreamErrors
    /\ observer \in [Invocations -> ObserverKinds]
    /\ observer["r2"] = "none"
    /\ credentials = Providers
    /\ Idle
    /\ fnIn = None
    /\ fnOut = NotApplied

\* callPrimaryThenFallback(prompt, undefined, { skipProviders, onPrimaryFailure })
InvokeRouter(i) ==
    /\ i \in clients
    /\ pc[i] = "idle"
    /\ op' = [op EXCEPT ![i] = "callPrimaryThenFallback"]
    /\ \E skipProviders \in SUBSET Providers : EnterRouter(i, DefaultContext, skipProviders)
    /\ steps' = [steps EXCEPT ![i] = 1]
    /\ UNCHANGED <<envVars, review, structuralData, result, competitors, skipOpenAIForThisRun,
                   normalized, returned, timedOut, lite, before, threw, fnVars>>

\* lines 391-392, 402, 429, 435 : the promise of the direct call settles
RouterSettles(i) ==
    /\ pc[i] = "routed"
    /\ op[i] = "callPrimaryThenFallback"
    /\ returned' = [returned EXCEPT ![i] = IF rout[i].ok THEN rout[i].value ELSE Throw]
    /\ Goto(i, "done")
    /\ Step(i)
    /\ UNCHANGED <<envVars, op, review, structuralData, result, competitors, skipOpenAIForThisRun,
                   normalized, histVars, fnVars>>

NextRouter ==
    \/ Next
    \/ \E i \in Invocations : InvokeRouter(i)
    \/ \E i \in Invocations : RouterSettles(i)

SpecRouter == InitRouter /\ [][NextRouter]_vars

(***************************************************************************)
(* callPrimaryThenFallback under every set of configured API keys          *)
(***************************************************************************)
InitCredentials ==
    /\ env \in EnvValues
    /\ clients = {"r1"}
    /\ upstream = (DefaultContext :> {LiteStrong, DiscoveryNone}) @@ FullUpstream
    /\ failures = UpstreamErrors
    /\ observer = NoObserver
    /\ credentials \in SUBSET Providers
    /\ Idle
    /\ fnIn = None
    /\ fnOut = NotApplied

NextCredentials ==
    \E i \in Invocations :
        \/ InvokeRouter(i)
        \/ CallProvider(i)
        \/ ProviderReturns(i)
        \/ ProviderThrows(i)
        \/ RouterSettles(i)

SpecCredentials == InitCredentials /\ [][NextCredentials]_vars

(***************************************************************************)
(* enrichDataReviewPostCall                                                *)
(***************************************************************************)
ClientEnrichmentContext == "postcall-enrichment-client"

\* What a request may carry as `competitors`
ReviewCompetitors ==
    {Null,
     Arr(<<>>),
     Arr(<<Comp(Host("a")), Comp(Host("b"))>>),
     Arr(<<Comp(Host("a")), Comp(Str(<<"localhost">>)), Null, Comp(Host("b"))>>),
     Arr(<<Comp(Host("a")), Comp(Str(<<"HTTPS://", "WWW", ".", "A", ".", "com", "/">>)),
           Comp(Host("b"))>>),
     Arr(<<Obj([name |-> Str(<<"a", ".", "com">>)]), Comp(Host("c"))>>)}

\* What it may carry as clientData.domain
ReviewClientDomains == {Undef, Str(<<>>), Str(<<"acme", ".", "io">>)}

\* Array.isArray(competitors) ? competitors : []
competitorList(r) == IF IsArray(r.competitors) THEN r.competitors.v ELSE <<>>

\* An exception of the normalizer inside enrichEntityPostCall
TypeErrorMsg == <<"TypeError">>

InitReview ==
    /\ env = ""
    /\ clients = {"r1"}
    /\ upstream = (ClientEnrichmentContext :> {BackfillPatch, BackfillBroken})
                      @@ [SmallUpstream EXCEPT ![BackfillContext] =
                                                   {BackfillPatch, BackfillBroken}]
    /\ failures = {ServerMsg}
    /\ observer = NoObserver
    /\ credentials = Providers
    /\ Idle
    /\ fnIn = None
    /\ fnOut = NotApplied

\* lines 903-925 : the request is checked and the client enrichment started
InvokeReview(i) ==
    /\ i \in clients
    /\ pc[i] = "idle"
    /\ op' = [op EXCEPT ![i] = "enrichDataReviewPostCall"]
    /\ \E clientDomain \in ReviewClientDomains, list \in ReviewCompetitors :
          /\ review' = [review EXCEPT ![i] = [NoReview EXCEPT !.competitors = list]]
          /\ IF ~Truthy(clientDomain)
             THEN /\ returned' = [returned EXCEPT ![i] = Throw]
                  /\ Goto(i, "done")
             ELSE /\ EnterRouter(i, ClientEnrichmentContext, {})
                  /\ UNCHANGED returned
    /\ steps' = [steps EXCEPT ![i] = 1]
    /\ UNCHANGED <<envVars, structuralData, result, competitors, skipOpenAIForThisRun,
                   normalized, timedOut, lite, before, threw, fnVars>>

\* lines 919-925 : the client enrichment has ended; its exception rejects
\* the whole call
ClientEnriched(i) ==
    /\ pc[i] = "routed"
    /\ op[i] = "enrichDataReviewPostCall"
    /\ stage[i] = ClientEnrichmentContext
    /\ LET patch == BackfillOutcome(rout[i])
       IN  /\ review' = [review EXCEPT ![i].clientDataPatch = patch]
           /\ IF patch = Throw
              THEN /\ returned' = [returned EXCEPT ![i] = Throw]
                   /\ Goto(i, "done")
              ELSE /\ UNCHANGED returned
                   /\ Goto(i, "next_competitor")
    /\ threw' = [threw EXCEPT ![i] = IF rout[i].ok THEN @ ELSE @ \cup {stage[i]}]
    /\ Step(i)
    /\ UNCHANGED <<envVars, op, structuralData, result, competitors, skipOpenAIForThisRun,
                   normalized, timedOut, lite, before, fnVars>>

\* the domain key of the competitor the loop stands at
ReviewDomain(r) == normalizeDomainKey(Get(competitorList(r)[r.at], "domain"))

\* lines 931-944, 947-952 : the next competitor of the list, skipped without
\* a domain key, enriched otherwise; after the last one the call returns
NextCompetitor(i) ==
    /\ pc[i] = "next_competitor"
    /\ IF review[i].at > Len(competitorList(review[i]))
       THEN /\ returned' =
                  [returned EXCEPT ![i] =
                      Obj([clientDataPatch |-> review[i].clientDataPatch,
                           competitorPatchesByDomain |-> review[i].competitorPatchesByDomain,
                           failedCompetitors |-> review[i].failedCompetitors])]
            /\ Goto(i, "done")
            /\ UNCHANGED review
       ELSE IF ~Truthy(ReviewDomain(review[i]))
       THEN /\ review' = [review EXCEPT ![i].at = @ + 1]
            /\ Goto(i, "next_competitor")
            /\ UNCHANGED returned
       ELSE /\ EnterRouter(i, BackfillContext, {})
            /\ UNCHANGED <<review, returned>>
    /\ Step(i)
    /\ UNCHANGED <<envVars, op, structuralData, result, competitors, skipOpenAIForThisRun,
                   normalized, timedOut, lite, before, threw, fnVars>>

\* Variant: the first competitor that fails ends the loop
AfterFailureBreak(at, list) == Len(list) + 1

\* lines 942-944 : the catch block records the failure and the loop goes on
AfterFailure(at, list) == at + 1

\* lines 934-944 : the enrichment of one competitor has ended
CompetitorEnriched(i) ==
    /\ pc[i] = "routed"
    /\ op[i] = "enrichDataReviewPostCall"
    /\ stage[i] = BackfillContext
    /\ LET patch == BackfillOutcome(rout[i])
           domain == ReviewDomain(review[i])
           error == IF rout[i].ok THEN TypeErrorMsg ELSE rout[i].error
       IN  review' =
              [review EXCEPT ![i] =
                  IF patch = Throw
                  THEN [@ EXCEPT !.failedCompetitors =
                                     Append(@, [domain |-> domain, error |-> error]),
                                 !.at = AfterFailure(@, competitorList(review[i]))]
                  ELSE [@ EXCEPT !.competitorPatchesByDomain = (domain :> patch) @@ @,
                                 !.at = @ + 1]]
    /\ threw' = [threw EXCEPT ![i] = IF rout[i].ok THEN @ ELSE @ \cup {stage[i]}]
    /\ Goto(i, "next_competitor")
    /\ Step(i)
    /\ UNCHANGED <<envVars, op, structuralData, result, competitors, skipOpenAIForThisRun,
                   normalized, returned, timedOut, lite, before, fnVars>>

NextReview ==
    \E i \in Invocations :
        \/ InvokeReview(i)
        \/ CallProvider(i)
        \/ ProviderReturns(i)
        \/ ProviderThrows(i)
        \/ ClientEnriched(i)
        \/ NextCompetitor(i)
        \/ CompetitorEnriched(i)

SpecReview == InitReview /\ [][NextReview]_vars

(***************************************************************************)
(* shouldEscalateToMaster applied to one record                            *)
(***************************************************************************)
MaxFeatures == 4

Put(o, k, x) == IF x = Undef THEN o ELSE Set(o, k, x)

\* Records as a provider may write them: each of the four fields the
\* function reads is absent, empty, or present in one of several shapes
EscalateInputs ==
    LET confidences == {Undef} \cup {Str(<<c>>) : c \in {"low", "LOW", "Low", "medium", "high"}}
        texts == {Undef, Null, Str(<<>>), Str(<<"text">>)}
        lists == {Undef, Str(<<"f1", ", ", "f2", ", ", "f3">>)}
                    \cup {Arr([k \in 1..n |-> Feature(k)]) : n \in 0..MaxFeatures}
    IN  {Put(Put(Put(Put(EmptyObj, "confidence", c), "about", a), "niche", n), "features", f) :
            c \in confidences, a \in texts, n \in texts, f \in lists}

InitEscalate ==
    /\ env = ""
    /\ clients = {}
    /\ upstream = SmallUpstream
    /\ failures = {}
    /\ observer = NoObserver
    /\ credentials = Providers
    /\ Idle
    /\ fnIn \in EscalateInputs
    /\ fnOut = NotApplied

ApplyShouldEscalate ==
    /\ ~fnOut.done
    /\ fnOut' = Applied(shouldEscalateToMaster(fnIn))
    /\ UNCHANGED <<envVars, localVars, routerVars, histVars, pc, steps, fnIn>>

NextEscalate == ApplyShouldEscalate

SpecEscalate == InitEscalate /\ [][NextEscalate]_vars

(***************************************************************************)
(* Properties                                                              *)
(***************************************************************************)
Range(s) == {s[k] : k \in DOMAIN s}
IsPrefix(s, u) == Len(s) <= Len(u) /\ \A k \in DOMAIN s : s[k] = u[k]
Count(s, x) == Cardinality({k \in DOMAIN s : s[k] = x})
InRouter(i) == pc[i] \in {"try", "await", "routed"}
CalledProviders(i) == [k \in DOMAIN called[i] |-> called[i][k].provider]

\* C1: a router invocation that has ended either returns the value of the
\* provider call that succeeded, made after every earlier candidate failed,
\* or throws after each candidate of the effective order was called and
\* failed; while it is still trying, no call of it has succeeded.
C1_ThrowsOnlyWhenAllTried ==
    \A i \in Invocations :
        /\ pc[i] \in {"try", "await"} => \A k \in DOMAIN called[i] : ~called[i][k].ok
        /\ pc[i] = "routed" =>
              IF rout[i].ok
              THEN /\ called[i] # <<>>
                   /\ called[i][Len(called[i])].ok
                   /\ \A k \in 1..(Len(called[i]) - 1) : ~called[i][k].ok
                   /\ rout[i].value \in upstream[stage[i]]
              ELSE /\ CalledProviders(i) = order[i]
                   /\ \A k \in DOMAIN called[i] : ~called[i][k].ok

C1_ThrewAfterThreeFailures ==
    \E i \in Invocations : pc[i] = "routed" /\ ~rout[i].ok /\ Len(called[i]) = 3

\* The order the specification states for a configured primary
StatedOrder(primary) ==
    CASE primary = "gemini" -> <<"gemini", "openai", "perplexity">>
      [] primary = "perplexity" -> <<"perplexity", "openai", "gemini">>
      [] OTHER -> <<"openai", "gemini", "perplexity">>

StatedSkip(i) ==
    IF stage[i] \in {"research-domain-master", "competitor-discovery-recovery"}
       /\ skipOpenAIForThisRun[i]
    THEN {"openai"} ELSE {}

\* C2: within a router invocation the providers are called in the order
\* primary, then openai, gemini, perplexity without the primary, the
\* skipped ones left out; each at most once; none after the first success.
C2_CallsFollowTheOrder ==
    \A i \in Invocations :
        InRouter(i) =>
            LET stated == SelectSeq(StatedOrder(LowerEnv(env)),
                                    LAMBDA p : p \notin StatedSkip(i))
            IN  /\ order[i] = stated
                /\ IsPrefix(CalledProviders(i), stated)
                /\ \A k, m \in DOMAIN called[i] :
                      called[i][k].provider = called[i][m].provider => k = m
                /\ \A k \in DOMAIN called[i] : called[i][k].ok => k = Len(called[i])
                /\ inflight[i] \subseteq Range(stated) \ Range(CalledProviders(i))

C2_QuotaThenFallbackSucceeds ==
    \E i \in Invocations :
        /\ pc[i] = "routed"
        /\ rout[i].ok
        /\ Len(order[i]) = 3
        /\ Len(called[i]) = 2
        /\ called[i][1].provider = "gemini"
        /\ called[i][1].quota
        /\ called[i][2].provider = "openai"

\* C3: once an OpenAI call of a researchDomain invocation has timed out, no
\* later call of that invocation goes to OpenAI, whichever provider is
\* configured as primary.
C3_NoOpenAIAfterItsTimeout ==
    \A i \in Invocations :
        op[i] = "researchDomain" /\ "openai" \in inflight[i] => ~timedOut[i]

\* C4: an invocation has at most one provider call in flight, the call to
\* the candidate the router stands at, and none outside the router.
C4_OneCallInFlight ==
    \A i \in Invocations :
        /\ Cardinality(inflight[i]) <= 1
        /\ inflight[i] # {} => pc[i] = "await" /\ inflight[i] = {order[i][idx[i]]}

C4_FallbackInFlightDuringMaster ==
    \E i \in Invocations :
        /\ stage[i] = "research-domain-master"
        /\ idx[i] = 2
        /\ inflight[i] # {}

\* C5: the skip-OpenAI flag of an invocation is set only by an OpenAI
\* timeout that invocation saw itself; its primary pass uses the full order
\* and its later passes drop OpenAI only when its own flag is set.
C5_SkipStateIsPerInvocation ==
    \A i \in Invocations :
        /\ skipOpenAIForThisRun[i] => timedOut[i]
        /\ InRouter(i) =>
              IF stage[i] \in {"research-domain-master", "competitor-discovery-recovery"}
                 /\ skipOpenAIForThisRun[i]
              THEN order[i] = SelectSeq(getProviderOrder(env), LAMBDA p : p # "openai")
              ELSE order[i] = getProviderOrder(env)

C5_OtherInvocationStillCallsOpenAI ==
    \E i, j \in Invocations :
        /\ i # j
        /\ skipOpenAIForThisRun[i]
        /\ ~skipOpenAIForThisRun[j]
        /\ stage[j] = "research-domain-master"
        /\ "openai" \in inflight[j]

\* the master decision of researchDomain has been taken
MasterDecided(i) ==
    /\ pc[i] \notin {"idle", "scrape", "check_master"}
    /\ ~(InRouter(i) /\ stage[i] = "research-domain-primary")

\* C6: researchDomain runs the master pass exactly when the primary pass
\* returned a result and shouldEscalateToMaster holds of it; the master pass
\* comes right after the primary pass and runs at most once.
C6_MasterIffWeakLiteResult ==
    \A i \in Invocations :
        op[i] = "researchDomain" =>
            LET at == {k \in DOMAIN routers[i] : routers[i][k] = "research-domain-master"}
            IN  /\ at \subseteq {2}
                /\ at # {} => /\ routers[i][1] = "research-domain-primary"
                              /\ lite[i] # None
                              /\ Truthy(lite[i])
                              /\ shouldEscalateToMaster(lite[i])
                /\ MasterDecided(i) /\ Truthy(lite[i]) /\ shouldEscalateToMaster(lite[i])
                      => at # {}

C6_MasterRanOnLowConfidence ==
    \E i \in Invocations :
        /\ op[i] = "researchDomain"
        /\ pc[i] = "done"
        /\ lite[i] = LiteLowConfidence
        /\ "research-domain-master" \in Range(routers[i])

\* C7: the recovery pass runs exactly once, after the master decision, iff
\* a result exists and fewer than 5 competitors are accumulated; the list
\* accumulated before it is a prefix of the list after it.
C7_RecoveryOnlyAppends ==
    \A i \in Invocations :
        op[i] = "researchDomain" /\ pc[i] \in {"finish", "done"} =>
            LET ran == RecoveryContext \in Range(routers[i])
                had == IF ran THEN before[i] ELSE competitors[i]
            IN  /\ Count(routers[i], RecoveryContext) <= 1
                /\ ran <=> (Truthy(result[i]) /\ Len(had.v) < 5)
                /\ ran => /\ routers[i][Len(routers[i])] = RecoveryContext
                          /\ IsPrefix(before[i].v, competitors[i].v)

\* the router invocations an operation may make, in order
StatedPasses(o) ==
    IF o = "researchDomain"
    THEN <<"research-domain-primary", "research-domain-master",
           "competitor-discovery-recovery">>
    ELSE <<"research-competitor-primary", "research-competitor-master",
           "postcall-enrichment-competitor">>

\* s keeps the order of u and repeats nothing
IsSubsequence(s, u) ==
    \E f \in [DOMAIN s -> DOMAIN u] :
        /\ \A k \in DOMAIN s : s[k] = u[f[k]]
        /\ \A k, m \in DOMAIN s : k < m => f[k] < f[m]

\* the steps an invocation takes when every pass runs and every provider of
\* every pass is called
StepBound == 2 + 3 * (2 * Cardinality(Providers) + 1) + 3

\* the handler invocation i stands at is ready to run: the guards of the
\* actions, with the pools their inputs are drawn from
Runnable(i) ==
    \/ pc[i] = "scrape" /\ upstream["scrape"] # {}
    \/ pc[i] = "try" /\ idx[i] \in DOMAIN order[i]
    \/ pc[i] = "await" /\ (upstream[stage[i]] # {} \/ failures # {})
    \/ pc[i] = "routed" /\ stage[i] \in Range(StatedPasses(op[i]))
    \/ pc[i] \in {"check_master", "check_recovery", "check_coverage", "finish"}

\* C8: an invocation makes at most three router invocations, the primary
\* pass first and each pass at most once; until it has returned its next
\* step is ready to run, and it returns within a fixed number of steps.
C8_AtMostThreePassesAndReturns ==
    \A i \in Invocations :
        /\ Len(routers[i]) <= 3
        /\ op[i] # "none" =>
              /\ IsSubsequence(routers[i], StatedPasses(op[i]))
              /\ routers[i] # <<>> => routers[i][1] = StatedPasses(op[i])[1]
        /\ steps[i] <= StepBound
        /\ pc[i] \notin {"idle", "done"} => Runnable(i)

C8_ReturnedAfterThreeFullPasses ==
    \E i \in Invocations :
        /\ pc[i] = "done"
        /\ Len(routers[i]) = 3
        /\ steps[i] = StepBound

\* C9: researchDomain returns null exactly when the primary pass failed on
\* every provider; otherwise it returns a record, also when the master pass
\* or the recovery pass failed.
C9_NullOnlyWhenPrimaryFailed ==
    \A i \in Invocations :
        op[i] = "researchDomain" /\ pc[i] = "done" =>
            /\ returned[i] = Null <=> "research-domain-primary" \in threw[i]
            /\ "research-domain-primary" \notin threw[i] =>
                  returned[i] # Throw /\ returned[i].t = "object"

\* the claim of C10 read to the letter: confidence is the string "low"
EscalatesAsWritten(r) ==
    \/ Get(r, "confidence") = Str(<<"low">>)
    \/ ~Truthy(Get(r, "about"))
    \/ ~Truthy(Get(r, "niche"))
    \/ ~(IsArray(Get(r, "features")) /\ Len(Get(r, "features").v) >= 3)

C10_EscalatesOnExactLow ==
    fnOut.done => fnOut.value = EscalatesAsWritten(fnIn)

\* C10: shouldEscalateToMaster holds exactly when the confidence, compared
\* without regard to letter case, is "low", or about is missing or empty, or
\* niche is missing or empty, or features is not a list of at least 3.
C10_EscalatesOnLowInAnyCase ==
    fnOut.done =>
        fnOut.value =
            (\/ Get(fnIn, "confidence") \in {Str(<<c>>) : c \in {"low", "LOW", "Low"}}
             \/ ~Truthy(Get(fnIn, "about"))
             \/ ~Truthy(Get(fnIn, "niche"))
             \/ ~(IsArray(Get(fnIn, "features")) /\ Len(Get(fnIn, "features").v) >= 3))

C10_UpperCaseLowEscalates ==
    /\ fnOut.done
    /\ fnOut.value
    /\ Get(fnIn, "confidence") = Str(<<"LOW">>)
    /\ Truthy(Get(fnIn, "about"))
    /\ Truthy(Get(fnIn, "niche"))
    /\ IsArray(Get(fnIn, "features"))
    /\ Len(Get(fnIn, "features").v) = 3

(***************************************************************************)
(* normalizeResearchOutput applied to one raw object                       *)
(***************************************************************************)
\* No orchestrator invocation is under way
Quiescent ==
    /\ env = ""
    /\ clients = {}
    /\ upstream = SmallUpstream
    /\ failures = {}
    /\ observer = NoObserver
    /\ credentials = Providers
    /\ Idle

Group(category, items) == Obj([category |-> Str(<<category>>), items |-> items])

\* Shapes a provider may give `features`
FeatureShapes ==
    {Undef,
     Str(<<"sso">>),
     Arr(<<>>),
     Arr(<<Feature(1), Str(<<>>), Feature(2)>>),
     Arr(<<Group("core", Arr(<<Feature(1), Str(<<>>), Feature(2)>>)),
           Obj([name |-> Feature(3)]),
           Obj([category |-> Str(<<"other">>)])>>),
     Arr(<<Group("core", Arr(<<Feature(1)>>)), Feature(2)>>),
     Arr(<<Feature(1), Group("core", Arr(<<Feature(2)>>))>>),
     Arr(<<Null, Feature(1)>>),
     Arr(<<Group("core", Arr(<<Obj([name |-> Feature(1)]), Feature(2)>>))>>)}

IcpShapes ==
    {Undef,
     Str(<<"founders">>),
     Obj([buyerPersona |-> Str(<<"cto">>),
          industries |-> Arr(<<Str(<<"saas">>), Str(<<"fintech">>)>>)]),
     Obj([industries |-> Str(<<"saas">>)])}

ListShapes ==
    {Undef, Null, Str(<<"slack">>), Arr(<<Str(<<"slack">>)>>), Obj([slack |-> Str(<<"yes">>)])}

SocialShapes ==
    {Undef,
     Str(<<"@acme">>),
     Arr(<<Str(<<"@acme">>)>>),
     Obj([twitter |-> Str(<<"@acme">>), linkedin |-> Null, facebook |-> Str(<<>>)]),
     Obj([twitter |-> Str(<<"@acme">>), mastodon |-> Str(<<"@acme">>)])}

AppShapes == {Undef, Null, Obj([appStore |-> Str(<<"id1">>)])}

NormalizeInputs ==
    {Put(Put(Put(Put(Put(Put(EmptyObj, "features", f), "icp", c), "integrations", l),
                 "founders", l), "social", s), "appProfiles", a) :
        f \in FeatureShapes, c \in IcpShapes, l \in ListShapes, s \in SocialShapes,
        a \in AppShapes}

InitNormalize ==
    /\ Quiescent
    /\ fnIn \in NormalizeInputs
    /\ fnOut = NotApplied

ApplyNormalize ==
    /\ ~fnOut.done
    /\ fnOut' = Applied(normalizeResearchOutput(fnIn))
    /\ UNCHANGED <<envVars, localVars, routerVars, histVars, pc, steps, fnIn>>

NextNormalize == ApplyNormalize

SpecNormalize == InitNormalize /\ [][NextNormalize]_vars

\* the list fields and the narrative fields the record declares
DeclaredLists ==
    {"features", "integrations", "techStack", "compliance", "limitations",
     "commonObjections", "blogTopics", "segments", "contentThemes", "partnerships",
     "notableCustomers", "searchesPerformed", "competitors", "pricing", "founders",
     "reviews", "caseStudies", "contact"}
DeclaredNarratives ==
    {"name", "domain", "usp", "icp", "tone", "about", "industry", "niche",
     "productModel", "yearFounded", "headquarters", "teamSize", "funding", "support",
     "confidence", "confidenceNotes", "guarantees", "roadmap", "changelog",
     "activeHours", "contentStrategy", "researchDate"}

\* C11: for every raw object normalizeResearchOutput returns, without
\* throwing, an object whose declared list fields are all arrays and whose
\* declared narrative fields are all present as keys.
C11_NormalizerIsTotal ==
    fnOut.done =>
        /\ fnOut.value # Throw
        /\ fnOut.value.t = "object"
        /\ \A k \in DeclaredLists : IsArray(Get(fnOut.value, k))
        /\ DeclaredNarratives \subseteq DOMAIN fnOut.value.v

\* C19: after normalizeResearchOutput features is an array of strings, none
\* of them falsy, whatever shape the raw features had.
C19_FeaturesAreStrings ==
    fnOut.done /\ fnOut.value # Throw =>
        LET features == Get(fnOut.value, "features")
        IN  /\ IsArray(features)
            /\ \A k \in DOMAIN features.v :
                  features.v[k].t = "string" /\ features.v[k].v # <<>>

\* the value the provider supplied for a key of a profile group, if any
Supplied(group, key) ==
    IF group.t = "object" /\ key \in DOMAIN group.v
       /\ group.v[key].t \notin {"null", "undefined"}
    THEN group.v[key] ELSE Null

\* C20: after normalizeResearchOutput social and every profile group is an
\* object holding each key of its known key set, with the value the provider
\* supplied for it or null, whatever the raw value of the group was.
C20_ProfileGroupsAreComplete ==
    fnOut.done /\ fnOut.value # Throw =>
        \A g \in profileGroups :
            LET group == Get(fnOut.value, g)
            IN  /\ group.t = "object"
                /\ profileDefaults(g) \subseteq DOMAIN group.v
                /\ \A key \in profileDefaults(g) :
                      group.v[key] = Supplied(Get(fnIn, g), key)

C20_PartialSocialIsCompleted ==
    /\ fnOut.done
    /\ fnOut.value # Throw
    /\ Get(fnIn, "social") =
          Obj([twitter |-> Str(<<"@acme">>), linkedin |-> Null, facebook |-> Str(<<>>)])
    /\ Get(Get(fnOut.value, "social"), "twitter") = Str(<<"@acme">>)
    /\ Get(Get(fnOut.value, "social"), "facebook") = Str(<<>>)
    /\ Get(Get(fnOut.value, "social"), "tiktok") = Null
    /\ Get(fnIn, "appProfiles") = Undef
    /\ Get(Get(fnOut.value, "appProfiles"), "playStore") = Null

(***************************************************************************)
(* normalizeResearchOutput applied to a record it has normalized           *)
(***************************************************************************)
InitRenormalize ==
    /\ Quiescent
    /\ fnIn \in NormalizeInputs
    /\ fnOut = NotApplied

\* normalizeResearchOutput(raw), and normalizeResearchOutput of that record
ApplyNormalizeTwice ==
    /\ ~fnOut.done
    /\ LET once == normalizeResearchOutput(fnIn)
       IN  fnOut' = Applied([once |-> once,
                             twice |-> IF once = Throw THEN Throw
                                       ELSE normalizeResearchOutput(once)])
    /\ UNCHANGED <<envVars, localVars, routerVars, histVars, pc, steps, fnIn>>

NextRenormalize == ApplyNormalizeTwice

SpecRenormalize == InitRenormalize /\ [][NextRenormalize]_vars

\* C21: for every raw object the normalizer accepts, normalizing the
\* normalized record again returns a record equal to it; a string icp stays
\* as it is and a features array is not flattened a second time.
C21_NormalizeIsIdempotent ==
    fnOut.done /\ fnOut.value.once # Throw => fnOut.value.twice = fnOut.value.once

(***************************************************************************)
(* buildResearchPrompt applied to one research request, per intensity      *)
(***************************************************************************)
\* The fields of the JSON schema the prompt ends with
FastestSchemaFields ==
    {"name", "domain", "about", "niche", "usp", "features", "pricing", "competitors",
     "confidence"}
BaseSchemaFields ==
    {"name", "domain", "usp", "icp", "tone", "about", "industry", "niche", "productModel",
     "yearFounded", "headquarters", "teamSize", "activeHours", "funding", "features",
     "integrations", "techStack", "pricing", "founders", "compliance", "reviews",
     "caseStudies", "notableCustomers", "social", "support", "contact", "limitations",
     "commonObjections", "blogTopics", "contentStrategy", "segments", "contentThemes",
     "partnerships", "competitors", "strengthVsTarget", "weaknessVsTarget",
     "pricingComparison", "marketPositionVsTarget", "confidence", "confidenceNotes",
     "searchesPerformed", "researchDate"}

buildJsonSchema(domain, mode, promptMode) ==
    IF promptMode = "fastest" /\ mode = "client"
    THEN [domain |-> domain, fields |-> FastestSchemaFields]
    ELSE [domain |-> domain, fields |-> BaseSchemaFields]

\* The prompt text, as the record of the parts of it that are not fixed
buildResearchPrompt(domain, mode, structuralContext, clientContext, promptMode, enrichmentContext) ==
    LET isClient == mode = "client"
        isCompetitorEnriched == mode = "competitor" /\ promptMode = "competitor_enriched"
        isPostCallEnrichment == promptMode = "postcall_enrichment"
        headline == Get(structuralContext, "headline")
        features == Get(structuralContext, "features")
    IN  [opening |-> IF isClient THEN "senior market research analyst"
                     ELSE "competitive intelligence analyst",
         domain |-> domain,
         modeLine |-> IF isPostCallEnrichment THEN "POSTCALL_ENRICHMENT"
                      ELSE IF isCompetitorEnriched THEN "COMPETITOR_ENRICHED"
                      ELSE "CORE",
         versus |-> IF ~isClient /\ Truthy(clientContext)
                    THEN Get(clientContext, "domain") ELSE Null,
         directoryPass |-> isCompetitorEnriched,
         alreadyKnown |->
             IF Truthy(structuralContext) /\ (Truthy(headline) \/ HasLength(features))
             THEN [headline |-> IF Truthy(headline) THEN headline ELSE Null,
                   features |-> IF HasLength(features) THEN features ELSE Null]
             ELSE Null,
         comparison |-> IF ~isClient /\ Truthy(clientContext) THEN clientContext ELSE Null,
         postCall |-> IF isPostCallEnrichment /\ Truthy(enrichmentContext)
                      THEN enrichmentContext ELSE Null,
         schema |-> buildJsonSchema(domain, mode, promptMode)]

PromptModes ==
    {"fastest", "lite", "master", "competitor_enriched", "postcall_enrichment"}

\* Requests: a domain, a role, what the scraper found, the client a
\* competitor is compared with, the interview context of a backfill
PromptInputs ==
    [domain : {Str(<<"acme", ".", "io">>), Host("rival")},
     mode : {"client", "competitor"},
     structuralContext :
         {Null, EmptyObj, StructuralData, Obj([features |-> Arr(<<Feature(1)>>)])},
     clientContext : {Null, Obj([name |-> Str(<<"Acme">>), domain |-> Str(<<"acme", ".", "io">>)])},
     enrichmentContext : {Null, Str(<<"interview">>)}]

InitPrompt ==
    /\ Quiescent
    /\ fnIn \in PromptInputs
    /\ fnOut = NotApplied

\* the prompt of the request under every intensity
ApplyBuildResearchPrompt ==
    /\ ~fnOut.done
    /\ fnOut' = Applied([m \in PromptModes |->
                             buildResearchPrompt(fnIn.domain, fnIn.mode,
                                                 fnIn.structuralContext, fnIn.clientContext,
                                                 m, fnIn.enrichmentContext)])
    /\ UNCHANGED <<envVars, localVars, routerVars, histVars, pc, steps, fnIn>>

NextPrompt == ApplyBuildResearchPrompt

SpecPrompt == InitPrompt /\ [][NextPrompt]_vars

\* C22: for the same domain, role and context the prompt of intensity
\* master differs from the prompt of intensity lite, and its schema is
\* richer: it holds every field of the lite schema, more fields than it,
\* and searchesPerformed.
C22_MasterPromptIsRicher ==
    fnOut.done =>
        /\ fnOut.value["master"] # fnOut.value["lite"]
        /\ fnOut.value["lite"].schema.fields \subseteq fnOut.value["master"].schema.fields
        /\ fnOut.value["lite"].schema.fields # fnOut.value["master"].schema.fields
        /\ "searchesPerformed" \in fnOut.value["master"].schema.fields

(***************************************************************************)
(* Properties of the onPrimaryFailure callback                             *)
(***************************************************************************)
\* C23: a router invocation given a callback calls it exactly once when the
\* first provider of the effective order has failed, with that provider and
\* before any fallback call; never when the first provider succeeded, never
\* for a fallback; a callback that throws changes nothing: the fallbacks are
\* still called and the router ends as it does without a callback.
C23_ObserverCalledOnceOnPrimaryFailure ==
    \A i \in Invocations :
        LET callback == RegisteredObserver(op[i], stage[i], observer[i])
            firstFailed == called[i] # <<>> /\ ~called[i][1].ok
        IN  /\ Len(notified[i]) <= 1
            /\ notified[i] # <<>> <=> (callback # "none" /\ firstFailed)
            /\ notified[i] # <<>> =>
                  /\ notified[i][1].provider = order[i][1]
                  /\ notified[i][1].calls = 1
                  /\ notified[i][1].threw <=> callback = "throws"
            /\ pc[i] = "routed" /\ ~rout[i].ok /\ order[i] # <<>> =>
                  /\ rout[i].error = AllFailed
                  /\ CalledProviders(i) = order[i]
            /\ pc[i] = "routed" /\ rout[i].ok => called[i][Len(called[i])].ok

C23_ThrowingObserverThenFallbackSucceeds ==
    \E i \in Invocations :
        /\ op[i] = "callPrimaryThenFallback"
        /\ pc[i] = "done"
        /\ Len(notified[i]) = 1
        /\ notified[i][1].threw
        /\ Len(called[i]) = 3
        /\ returned[i] = LiteStrong

(***************************************************************************)
(* Properties of the master escalation                                     *)
(***************************************************************************)
\* the master pass of researchDomain has run and returned a result
MasterSucceeded(i) ==
    /\ op[i] = "researchDomain"
    /\ pc[i] \in {"check_recovery", "finish", "done"}
    /\ "research-domain-master" \in Range(routers[i])
    /\ "research-domain-master" \notin threw[i]

\* the competitor list as the master block left it
AfterMasterList(i) ==
    IF RecoveryContext \in Range(routers[i]) THEN before[i] ELSE competitors[i]

\* C24: after a successful master pass the result is the master result and
\* the returned data is the normalized master result with the accumulated
\* competitor list, no other field coming from the lite result; the
\* competitor list is the deduplicated union of the lite competitors
\* followed by the master competitors, the lite list when the master result
\* has none.
C24_MasterReplacesAndUnitesCompetitors ==
    \A i \in Invocations :
        MasterSucceeded(i) =>
            /\ result[i] \in upstream["research-domain-master"]
            /\ pc[i] = "done" /\ returned[i] # Throw =>
                  Get(returned[i], "data") =
                      normalizeResearchOutput(Set(result[i], "competitors", competitors[i]))
            /\ AfterMasterList(i) =
                  mergeAndDedupeCompetitors(
                      <<Get(lite[i], "competitors"), Get(result[i], "competitors")>>)
            /\ ~HasCompetitors(result[i]) =>
                  AfterMasterList(i) =
                      mergeAndDedupeCompetitors(<<Get(lite[i], "competitors")>>)

(***************************************************************************)
(* Properties of what researchCompetitor returns                           *)
(***************************************************************************)
\* C25: researchCompetitor returns null exactly when its primary router
\* invocation failed, every provider of the order having been called and
\* having failed; when the backfill pass fails on every provider it returns,
\* without throwing, the normalized record as it was before the backfill.
C25_NullOnlyOnPrimaryFailureBackfillAbsorbed ==
    \A i \in Invocations :
        op[i] = "researchCompetitor" /\ pc[i] = "done" =>
            /\ returned[i] = Null <=> "research-competitor-primary" \in threw[i]
            /\ returned[i] = Null =>
                  /\ routers[i] = <<"research-competitor-primary">>
                  /\ CalledProviders(i) = order[i]
                  /\ \A k \in DOMAIN called[i] : ~called[i][k].ok
            /\ BackfillContext \in threw[i] =>
                  /\ returned[i] \notin {Null, Throw}
                  /\ returned[i] = normalizeResearchOutput(result[i])

C25_BackfillFailedRecordKept ==
    \E i \in Invocations :
        /\ op[i] = "researchCompetitor"
        /\ pc[i] = "done"
        /\ BackfillContext \in threw[i]
        /\ Len(called[i]) = 3
        /\ returned[i] = normalizeResearchOutput(CompetitorSparse)

(***************************************************************************)
(* Properties of the adapters' credentials                                 *)
(***************************************************************************)
\* C26: a call to a provider whose key is not set fails without an upstream
\* request, and the router goes on as after any failure: it returns the
\* result of the first provider whose call succeeds, however many earlier
\* providers lack a key, and throws only after every provider of the order
\* was called and failed.
C26_MissingKeyIsAnOrdinaryFailure ==
    \A i \in Invocations :
        /\ \A k \in DOMAIN called[i] :
              /\ called[i][k].request <=> called[i][k].provider \in credentials
              /\ called[i][k].ok => called[i][k].request
        /\ pc[i] \in {"try", "await"} =>
              /\ Len(called[i]) = idx[i] - 1
              /\ \A k \in DOMAIN called[i] : ~called[i][k].ok
        /\ pc[i] = "routed" /\ order[i] # <<>> =>
              IF rout[i].ok
              THEN /\ called[i][Len(called[i])].ok
                   /\ rout[i].value \in upstream[stage[i]]
              ELSE /\ CalledProviders(i) = order[i]
                   /\ \A k \in DOMAIN called[i] : ~called[i][k].ok

C26_OnlyLastProviderHasKey ==
    \E i \in Invocations :
        /\ credentials = {"perplexity"}
        /\ pc[i] = "done"
        /\ CalledProviders(i) = <<"openai", "gemini", "perplexity">>
        /\ ~called[i][1].request
        /\ ~called[i][2].request
        /\ called[i][3].ok
        /\ returned[i] = LiteStrong

(***************************************************************************)
(* Properties of the structural scrape                                     *)
(***************************************************************************)
\* C27: no provider call is started before the scrape has resolved or
\* rejected; once it has, the primary router invocation is made, also when
\* the scrape rejected and structuralData stayed null, the prompt then
\* carrying no pre-scraped context; the invocation returns null only when
\* the primary pass failed and rejects only with a provider result in hand,
\* never because of the scrape.
C27_ScrapeFailureIsAbsorbed ==
    \A i \in Invocations :
        op[i] \in Operations =>
            /\ pc[i] = "scrape" =>
                  routers[i] = <<>> /\ called[i] = <<>> /\ inflight[i] = {}
            /\ pc[i] \notin {"idle", "scrape"} =>
                  /\ routers[i] # <<>>
                  /\ routers[i][1] = PrimaryContext(op[i])
                  /\ structuralData[i] = Null =>
                        buildResearchPrompt(Str(<<"acme", ".", "io">>),
                                            IF op[i] = "researchDomain" THEN "client"
                                            ELSE "competitor",
                                            structuralData[i], Null, PromptMode(op[i]),
                                            Null).alreadyKnown = Null
            /\ pc[i] = "done" =>
                  /\ returned[i] = Null => PrimaryContext(op[i]) \in threw[i]
                  /\ returned[i] = Throw => Truthy(result[i])

C27_ReturnedAfterFailedScrape ==
    \E i \in Invocations :
        /\ op[i] = "researchDomain"
        /\ pc[i] = "done"
        /\ structuralData[i] = Null
        /\ returned[i].t = "object"
        /\ Get(Get(returned[i], "data"), "name") = Str(<<"Acme">>)

(***************************************************************************)
(* Properties of enrichDataReviewPostCall                                  *)
(***************************************************************************)
\* the domain keys of the competitors of the request that have one
ValidDomains(r) ==
    {normalizeDomainKey(Get(competitorList(r)[k], "domain")) :
        k \in DOMAIN competitorList(r)} \ {Null}

FailedDomains(r) == {r.failedCompetitors[k].domain : k \in DOMAIN r.failedCompetitors}

\* C28: the client enrichment is the first router invocation and the
\* competitors are enriched after it, one call at a time, in list order; the
\* call rejects exactly when the client enrichment failed or the client
\* domain is missing; a competitor that fails is recorded and the loop goes
\* on; at the end every competitor with a domain key is in
\* competitorPatchesByDomain or in failedCompetitors, and nothing else is.
C28_EveryCompetitorPatchedOrFailed ==
    \A i \in Invocations :
        op[i] = "enrichDataReviewPostCall" =>
            LET r == review[i]
                done == DOMAIN r.competitorPatchesByDomain \cup FailedDomains(r)
                valid == SelectSeq(competitorList(r),
                                   LAMBDA c : Truthy(normalizeDomainKey(Get(c, "domain"))))
            IN  /\ Cardinality(inflight[i]) <= 1
                /\ routers[i] # <<>> =>
                      /\ routers[i][1] = ClientEnrichmentContext
                      /\ \A k \in 2..Len(routers[i]) : routers[i][k] = BackfillContext
                /\ r.clientDataPatch \in {None, Throw} =>
                      done = {} /\ r.at = 1 /\ Len(routers[i]) <= 1
                /\ done \subseteq ValidDomains(r)
                /\ pc[i] = "done" =>
                      /\ returned[i] = Throw <=> r.clientDataPatch \in {None, Throw}
                      /\ returned[i] # Throw =>
                            /\ done = ValidDomains(r)
                            /\ Len(routers[i]) = 1 + Len(valid)
                            /\ Get(returned[i], "competitorPatchesByDomain")
                                   = r.competitorPatchesByDomain
                            /\ Get(returned[i], "failedCompetitors") = r.failedCompetitors

C28_FailureDidNotStopTheRest ==
    \E i \in Invocations :
        /\ op[i] = "enrichDataReviewPostCall"
        /\ pc[i] = "done"
        /\ returned[i] # Throw
        /\ Len(competitorList(review[i])) = 4
        /\ FailedDomains(review[i]) = {Host("a")}
        /\ DOMAIN review[i].competitorPatchesByDomain = {Host("b")}

(***************************************************************************)
(* Properties of the provider traffic of researchCompetitor                *)
(***************************************************************************)
\* C29: a researchCompetitor invocation never makes the master router
\* invocation, however weak its primary result; its router invocations are
\* the primary one, then at most one backfill.
C29_CompetitorNeverEscalates ==
    \A i \in Invocations :
        op[i] = "researchCompetitor" =>
            /\ "research-competitor-master" \notin Range(routers[i])
            /\ IsPrefix(routers[i], <<"research-competitor-primary", BackfillContext>>)
            /\ pc[i] \notin {"idle", "scrape"} => routers[i] # <<>>

C29_WeakCompetitorNotEscalated ==
    \E i \in Invocations :
        /\ op[i] = "researchCompetitor"
        /\ pc[i] = "done"
        /\ lite[i] = CompetitorSparse
        /\ shouldEscalateToMaster(lite[i])
        /\ routers[i] = <<"research-competitor-primary", BackfillContext>>

(***************************************************************************)
(* Properties of the competitor list researchDomain returns                *)
(***************************************************************************)
CompetitorRefKeys == {"domain", "name", "reason", "differentiator"}

\* C30: in every record researchDomain returns the competitors list equals
\* data.competitors entry for entry, each entry has exactly the keys domain,
\* name, reason, differentiator with a string domain, and no two entries
\* have the same domain, whichever of the passes succeeded or failed.
C30_ReturnedCompetitorsMatchData ==
    \A i \in Invocations :
        op[i] = "researchDomain" /\ pc[i] = "done" /\ returned[i].t = "object" =>
            LET listed == Get(returned[i], "competitors")
                inData == Get(Get(returned[i], "data"), "competitors")
            IN  /\ IsArray(listed)
                /\ listed = inData
                /\ \A k \in DOMAIN listed.v :
                      /\ listed.v[k].t = "object"
                      /\ DOMAIN listed.v[k].v = CompetitorRefKeys
                      /\ listed.v[k].v.domain.t = "string"
                /\ \A k, m \in DOMAIN listed.v :
                      listed.v[k].v.domain = listed.v[m].v.domain => k = m

(***************************************************************************)
(* Properties of the returned records                                      *)
(***************************************************************************)
\* a bare lowercase host: no scheme, no leading www., no path, a dot
IsBareHost(x) ==
    /\ x.t = "string"
    /\ IncludesDot(x.v)
    /\ \A k \in DOMAIN x.v :
          /\ LowerTok(x.v[k]) = x.v[k]
          /\ x.v[k] \notin {"https://", "http://", "/", " "}
    /\ ~(Len(x.v) >= 2 /\ x.v[1] = "www" /\ x.v[2] = ".")

\* the ResearchRecord an invocation returned
ReturnedRecord(i) ==
    IF op[i] = "researchDomain" THEN Get(returned[i], "data") ELSE returned[i]

\* C12: the domain of every record researchDomain or researchCompetitor
\* returns is a bare lowercase host, whatever form the provider wrote.
C12_RecordDomainIsBareHost ==
    \A i \in Invocations :
        pc[i] = "done" /\ returned[i].t = "object" =>
            IsBareHost(Get(ReturnedRecord(i), "domain"))

(***************************************************************************)
(* mergeFillMissing applied to one record and one patch                    *)
(***************************************************************************)
Text(s) == Str(<<s>>)

\* a narrative field, a list field and a profile group of the current record
ExistingRecords ==
    {Put(Put(Put(EmptyObj, "tone", a), "integrations", l), "social", g) :
        a \in {Undef, Null, Str(<<>>), Str(<<" ">>), Text("warm")},
        l \in {Undef, Arr(<<>>), Arr(<<Text("slack"), Text("jira")>>),
               Arr(<<Text("Slack"), Str(<<"slack", " ">>), Str(<<>>)>>)},
        g \in {Undef, EmptyObj, Obj([twitter |-> Text("@acme"), linkedin |-> Null])}}

\* the same fields of a patch, in every type a provider may write
PatchRecords ==
    {Put(Put(Put(EmptyObj, "tone", a), "integrations", l), "social", g) :
        a \in {Undef, Null, Text("cool"), Arr(<<Text("cool")>>),
               Obj([voice |-> Text("cool")])},
        l \in {Undef, Null, Text("zapier"), Arr(<<Text("jira"), Text("zapier")>>),
               Obj([native |-> Arr(<<Text("zapier")>>)])},
        g \in {Null, Text("@other"), Arr(<<Text("@other")>>),
               Obj([twitter |-> Text("@other"), linkedin |-> Text("in/acme")]),
               Obj([twitter |-> Obj([handle |-> Text("@other")])])}}

InitMergeFill ==
    /\ Quiescent
    /\ fnIn \in [existing : ExistingRecords, patch : PatchRecords]
    /\ fnOut = NotApplied

ApplyMergeFillMissing ==
    /\ ~fnOut.done
    /\ fnOut' = Applied(mergeFillMissing(fnIn.existing, fnIn.patch))
    /\ UNCHANGED <<envVars, localVars, routerVars, histVars, pc, steps, fnIn>>

NextMergeFill == ApplyMergeFillMissing

SpecMergeFill == InitMergeFill /\ [][NextMergeFill]_vars

IsScalar(x) == x.t \in {"string", "number", "boolean"}

\* C13: a field whose existing value is a non-empty scalar keeps that value
\* under every patch value; a scalar patch value is taken when the existing
\* value is empty.
C13_NonEmptyScalarIsKept ==
    fnOut.done =>
        LET was == Get(fnIn.existing, "tone")
            given == Get(fnIn.patch, "tone")
            now == Get(fnOut.value, "tone")
        IN  /\ IsScalar(was) /\ ~isEmptyValue(was) => now = was
            /\ isEmptyValue(was) /\ IsScalar(given) => now = given

\* x occurs in the array xs, strings compared trimmed and case-insensitively
OccursIn(x, xs) == \E k \in DOMAIN xs.v : DedupeKey(xs.v[k]) = DedupeKey(x)

\* C14: every element of a non-empty existing array field and every entry
\* of a non-empty existing object field is still there after
\* mergeFillMissing, whatever the type of the patch value of the field.
C14_NothingExistingIsLost ==
    fnOut.done =>
        LET list == Get(fnIn.existing, "integrations")
            group == Get(fnIn.existing, "social")
            nowList == Get(fnOut.value, "integrations")
            nowGroup == Get(fnOut.value, "social")
        IN  /\ IsArray(list) /\ list.v # <<>> =>
                  /\ IsArray(nowList)
                  /\ \A k \in DOMAIN list.v :
                        ~EmptyKey(list.v[k]) => OccursIn(list.v[k], nowList)
            /\ group.t = "object" /\ DOMAIN group.v # {} =>
                  /\ nowGroup.t = "object"
                  /\ \A key \in DOMAIN group.v :
                        ~isEmptyValue(group.v[key]) => Get(nowGroup, key) = group.v[key]

(***************************************************************************)
(* normalizeDomainKey applied to one spelling of a host, and to its result *)
(***************************************************************************)
MaxWww == 2

RECURSIVE Repeat(_, _)
Repeat(s, n) == IF n = 0 THEN <<>> ELSE s \o Repeat(s, n - 1)

\* The spellings of a host: a scheme or none, leading www. labels in either
\* case, the host in either case, a path or none, blanks around it or none
Spellings ==
    {[raw |-> Str(pad \o scheme \o Repeat(www, n) \o host \o path \o pad),
      www |-> n] :
        pad \in {<<>>, <<" ">>},
        scheme \in {<<>>, <<"https://">>, <<"http://">>, <<"HTTPS://">>},
        www \in {<<"www", ".">>, <<"WWW", ".">>},
        n \in 0..MaxWww,
        host \in {<<"example", ".", "com">>, <<"Example", ".", "com">>,
                  <<"Example", ".", "COM">>},
        path \in {<<>>, <<"/">>, <<"/", "path">>}}

InitDomainKey ==
    /\ Quiescent
    /\ fnIn \in Spellings
    /\ fnOut = NotApplied

ApplyNormalizeDomainKey ==
    /\ ~fnOut.done
    /\ fnOut' = Applied([once |-> normalizeDomainKey(fnIn.raw),
                         twice |-> normalizeDomainKey(normalizeDomainKey(fnIn.raw))])
    /\ UNCHANGED <<envVars, localVars, routerVars, histVars, pc, steps, fnIn>>

NextDomainKey == ApplyNormalizeDomainKey

SpecDomainKey == InitDomainKey /\ [][NextDomainKey]_vars

\* C17: normalizeDomainKey maps every spelling of example.com (scheme or
\* none, any case, one leading www. or none, path or none) to "example.com",
\* and maps each of its results to itself.
C17_KeyIsCanonicalAndIdempotent ==
    fnOut.done =>
        /\ fnIn.www <= 1 => fnOut.value.once = Str(<<"example", ".", "com">>)
        /\ fnOut.value.twice = fnOut.value.once

(***************************************************************************)
(* sanitizeCompetitor applied to one raw entry                             *)
(***************************************************************************)
RawEntries ==
    {Null, Str(<<"a", ".", "com">>)} \cup
    {Put(Put(Put(Put(EmptyObj, "domain", d), "url", u), "name", n), "differentiator", x) :
        d \in {Undef, Null, Str(<<>>), Str(<<"localhost">>), Str(<<"a", ".", "com">>),
               Str(<<"HTTPS://", "WWW", ".", "A", ".", "COM", "/", "pricing">>)},
        u \in {Undef, Str(<<"http://", "b", ".", "com", "/">>)},
        n \in {Undef, Str(<<"acme">>), Str(<<"acme", " ", "inc", ".">>),
               Str(<<"a", ".", "com">>)},
        x \in {Undef, Str(<<" ", "cheaper", " ">>)}}

InitSanitize ==
    /\ Quiescent
    /\ fnIn \in RawEntries
    /\ fnOut = NotApplied

ApplySanitizeCompetitor ==
    /\ ~fnOut.done
    /\ fnOut' = Applied(sanitizeCompetitor(fnIn))
    /\ UNCHANGED <<envVars, localVars, routerVars, histVars, pc, steps, fnIn>>

NextSanitize == ApplySanitizeCompetitor

SpecSanitize == InitSanitize /\ [][NextSanitize]_vars

\* the field the host is derived from: domain, url, website or name
HostSource(raw) ==
    Or(Or(Or(Get(raw, "domain"), Get(raw, "url")), Get(raw, "website")), Get(raw, "name"))

\* C16: sanitizeCompetitor returns null when the field the host is derived
\* from holds no dotted host, and the domain of every entry it returns is a
\* bare lowercase host with a dot.
C16_DomainIsCanonicalHost ==
    fnOut.done =>
        /\ ~(HostSource(fnIn).t = "string" /\ IncludesDot(HostSource(fnIn).v))
              => fnOut.value = Null
        /\ fnOut.value # Null => IsBareHost(Get(fnOut.value, "domain"))

(***************************************************************************)
(* mergeAndDedupeCompetitors applied to some lists                         *)
(***************************************************************************)
MaxLists == 3

CompetitorLists ==
    {Null,
     Arr(<<>>),
     Arr(<<Comp(Host("a")), Comp(Str(<<"A", ".", "com">>))>>),
     Arr(<<Obj([domain |-> Host("a"), name |-> Text("Other"),
                differentiator |-> Text("cheaper")]),
           Comp(Host("b"))>>),
     Arr(<<Comp(Str(<<"localhost">>)), Named(Host("b"), <<"B">>), Null>>),
     Arr(<<Comp(Str(<<"www", ".", "a", ".", "com">>)),
           Comp(Str(<<"www", ".", "www", ".", "a", ".", "com">>))>>)}

SeqsUpTo(S, n) == UNION {[1..m -> S] : m \in 0..n}

InitCompetitors ==
    /\ Quiescent
    /\ fnIn \in SeqsUpTo(CompetitorLists, MaxLists)
    /\ fnOut = NotApplied

ApplyMergeAndDedupe ==
    /\ ~fnOut.done
    /\ fnOut' = Applied(mergeAndDedupeCompetitors(fnIn))
    /\ UNCHANGED <<envVars, localVars, routerVars, histVars, pc, steps, fnIn>>

NextCompetitors == ApplyMergeAndDedupe

SpecCompetitors == InitCompetitors /\ [][NextCompetitors]_vars

\* the raw items of all array arguments, in argument order
RECURSIVE Flatten(_)
Flatten(lists) ==
    IF lists = <<>> THEN <<>>
    ELSE (IF IsArray(Head(lists)) THEN Head(lists).v ELSE <<>>) \o Flatten(Tail(lists))

C18_BackfillFillsOnlyGaps ==
    \A i \in Invocations :
        op[i] = "researchCompetitor" /\ pc[i] = "done" /\ returned[i].t = "object" =>
            LET current == normalizeResearchOutput(result[i])
                ran == BackfillContext \in Range(routers[i])
            IN  /\ ran <=> Cardinality(CoverageChecksMet(current)) < 8
                /\ Count(routers[i], BackfillContext) <= 1
                /\ \A k \in DOMAIN current.v :
                      IsScalar(current.v[k]) /\ ~isEmptyValue(current.v[k])
                          => Get(returned[i], k) = current.v[k]

====
